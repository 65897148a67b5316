------------------------ MODULE PlanApprovalProofs --------------------------
(*****************************************************************************)
(* What holds of plan approval for all workflows, plans, answers and limits: *)
(* a valid plan can be carried out, a plan says what the model answered, a   *)
(* task in flight was given what the user approved, decisions are final, and *)
(* a draft stays on offer.                                                   *)
(*****************************************************************************)
EXTENDS PlanApproval, FiniteSetTheorems, SequenceTheorems, TLAPS

\* A family of subsets of a finite set has a least one: the induction that the
\* proof of a topological order needs, without an operator as a parameter.
LEMMA LeastSubset ==
  ASSUME NEW S, IsFiniteSet(S), NEW F \in SUBSET SUBSET S, F # {}
  PROVE  \E R \in F : \A T \in F : T \subseteq R => T = R
<1>1. F \subseteq FiniteSubsetsOf(S)
  BY FS_FiniteSubsetsOfFinite
<1>2. \E R \in F : \A T \in F : <<T, R>> \notin StrictSubsetOrdering(S)
  BY <1>1, FS_StrictSubsetOrderingWellFounded, WFMin
<1> QED
  BY <1>2 DEF StrictSubsetOrdering

----------------------------------------------------------------------------
\* A plan that PlanValidator accepts.

\* An order of all elements of a finite set leaves none of them out.
LEMMA OrdersCover ==
  ASSUME NEW S, IsFiniteSet(S), NEW o \in SetToSeqs(S)
  PROVE  /\ Cardinality(S) \in Nat /\ o \in [1 .. Cardinality(S) -> S]
         /\ \A i, j \in 1 .. Cardinality(S) : i # j => o[i] # o[j]
         /\ \A x \in S : \E i \in 1 .. Cardinality(S) : o[i] = x
<1> DEFINE D == 1 .. Cardinality(S)
<1>1. /\ Cardinality(S) \in Nat /\ o \in [D -> S]
      /\ \A i, j \in D : i # j => o[i] # o[j]
  BY FS_CardinalityType DEF SetToSeqs
<1>2. o \in Injection(D, S)
  BY <1>1 DEF Injection, IsInjective
<1>3. Cardinality(D) = Cardinality(S)
  BY <1>1, FS_Interval
<1>4. o \in Surjection(D, S)
  BY <1>2, <1>3, FS_Injection
<1> QED
  BY <1>1, <1>4 DEF Surjection

\* One more element at the end of an order.
LEMMA OrderGrows ==
  ASSUME NEW S, IsFiniteSet(S), NEW o \in SetToSeqs(S), NEW x, x \notin S,
         NEW n, n = Cardinality(S),
         NEW p, p = [k \in 1 .. n + 1 |-> IF k <= n THEN o[k] ELSE x]
  PROVE  p \in SetToSeqs(S \union {x})
<1>1. /\ n \in Nat /\ o \in [1 .. n -> S]
      /\ \A i, j \in 1 .. n : i # j => o[i] # o[j]
  BY OrdersCover
<1>2. Cardinality(S \union {x}) = n + 1
  BY FS_AddElement
<1>3. p \in [1 .. n + 1 -> S \union {x}]
  BY <1>1
<1>4. \A i, j \in 1 .. n + 1 : i # j => p[i] # p[j]
  BY <1>1
<1> QED
  BY <1>2, <1>3, <1>4 DEF SetToSeqs

\* The ids of a valid plan are distinct, and of every set of its tasks one depends
\* on none of the set.
LEMMA ValidFacts ==
  ASSUME NEW plan, NEW n \in Nat, DOMAIN plan.tasks = 1 .. n, Len(plan.tasks) = n,
         Valid(plan)
  PROVE  /\ \A i, j \in 1 .. n : plan.tasks[i].id = plan.tasks[j].id => i = j
         /\ \A i \in 1 .. n : plan.tasks[i].dependencies \subseteq Ids(plan)
         /\ \A R \in SUBSET (1 .. n) : R # {} =>
              \E i \in R : \A j \in R : plan.tasks[j].id \notin plan.tasks[i].dependencies
<1> DEFINE D == 1 .. n
           f == [i \in D |-> plan.tasks[i].id]
<1>1. IsFiniteSet(D) /\ Cardinality(D) = n
  BY FS_Interval
<1>2. f \in Surjection(D, Ids(plan))
  BY DEF Surjection, Ids
<1>3. Cardinality(Ids(plan)) = n
  BY DEF Valid
<1>4. f \in Injection(D, Ids(plan))
  BY <1>1, <1>2, <1>3, FS_Surjection
<1>5. \A i, j \in D : plan.tasks[i].id = plan.tasks[j].id => i = j
  BY <1>4 DEF Injection, IsInjective
<1>6. ASSUME NEW R \in SUBSET D, R # {}
      PROVE  \E i \in R : \A j \in R : plan.tasks[j].id \notin plan.tasks[i].dependencies
  <2> DEFINE S == {plan.tasks[i].id : i \in R}
  <2>1. S \in SUBSET Ids(plan) /\ S # {}
    BY <1>6 DEF Ids
  <2>2. PICK t \in S : \A i \in D : plan.tasks[i].id = t => plan.tasks[i].dependencies \intersect S = {}
    <3>1. ~Cyclic(plan)
      BY DEF Valid
    <3> HIDE DEF S
    <3>2. ~\A t \in S : \E i \in DOMAIN plan.tasks :
              plan.tasks[i].id = t /\ plan.tasks[i].dependencies \intersect S # {}
      BY <2>1, <3>1 DEF Cyclic
    <3> QED
      BY <3>2
  <2>3. PICK i \in R : plan.tasks[i].id = t
    BY <2>2
  <2>4. plan.tasks[i].dependencies \intersect S = {}
    BY <2>2, <2>3
  <2> QED
    BY <2>4
<1> QED
  BY <1>5, <1>6 DEF Valid

\* The order PlanValidator's check for cycles is there for exists: a least set of tasks
\* that are left out of an order is empty, since otherwise one of them could follow.
LEMMA ValidPlansCanBeCarriedOut ==
  ASSUME NEW plan, NEW n \in Nat, DOMAIN plan.tasks = 1 .. n, Len(plan.tasks) = n,
         Valid(plan)
  PROVE  CanBeCarriedOut(plan)
<1> DEFINE D == 1 .. n
           Task(i) == plan.tasks[i]
           Follows(o) ==
             \A k \in DOMAIN o : Task(o[k]).dependencies \subseteq {Task(o[m]).id : m \in 1 .. k - 1}
           Left == {R \in SUBSET D : \E o \in SetToSeqs(D \ R) : Follows(o)}
<1>1. IsFiniteSet(D)
  BY FS_Interval
<1>2. Left # {}
  <2>1. D \ D = {} /\ Cardinality({}) = 0
    BY FS_EmptySet
  <2>2. [k \in 1 .. 0 |-> 0] \in SetToSeqs({})
    <3>1. [k \in 1 .. 0 |-> 0] \in [1 .. 0 -> {}]
      OBVIOUS
    <3> QED
      BY <2>1, <3>1 DEF SetToSeqs
  <2>3. Follows([k \in 1 .. 0 |-> 0])
    OBVIOUS
  <2>4. D \in Left
    <3> HIDE DEF Follows, D
    <3> QED
      BY <2>1, <2>2, <2>3
  <2> QED
    BY <2>4, Zenon
<1>3. PICK R \in Left : \A T \in Left : T \subseteq R => T = R
  <2>1. Left \in SUBSET SUBSET D
    OBVIOUS
  <2> HIDE DEF Left, D
  <2> QED
    BY <1>1, <1>2, <2>1, LeastSubset
<1> R \in SUBSET D
  OBVIOUS
<1>4. PICK o \in SetToSeqs(D \ R) : Follows(o)
  OBVIOUS
<1>5. R = {}
  <2> SUFFICES ASSUME R # {} PROVE FALSE
    OBVIOUS
  <2>1. PICK i \in R : \A j \in R : Task(j).id \notin Task(i).dependencies
    BY ValidFacts
  <2> DEFINE c == Cardinality(D \ R)
             p == [k \in 1 .. c + 1 |-> IF k <= c THEN o[k] ELSE i]
  <2>2. /\ IsFiniteSet(D \ R) /\ c \in Nat /\ o \in [1 .. c -> D \ R]
        /\ \A x \in D \ R : \E k \in 1 .. c : o[k] = x
    <3>1. IsFiniteSet(D \ R)
      BY <1>1, FS_Difference, Zenon
    <3> HIDE DEF D, Left, Follows
    <3> QED
      BY <3>1, OrdersCover
  <2>3. p \in SetToSeqs(D \ (R \ {i}))
    <3>1. D \ (R \ {i}) = (D \ R) \union {i}
      OBVIOUS
    <3>2. p \in SetToSeqs((D \ R) \union {i})
      <4> HIDE DEF D, Left, Follows
      <4> QED
        BY <2>2, OrderGrows
    <3> QED
      BY <3>1, <3>2
  <2>4. Task(i).dependencies \subseteq {Task(o[m]).id : m \in 1 .. c}
    <3> SUFFICES ASSUME NEW d \in Task(i).dependencies
                 PROVE  \E m \in 1 .. c : Task(o[m]).id = d
      OBVIOUS
    <3>1. PICK j \in D : Task(j).id = d
      BY ValidFacts DEF Ids
    <3>2. j \in D \ R
      BY <2>1, <3>1
    <3> QED
      BY <2>2, <3>1, <3>2
  <2> HIDE DEF c
  <2>5. /\ DOMAIN p = 1 .. c + 1 /\ p[c + 1] = i
        /\ \A m \in 1 .. c : p[m] = o[m]
    BY <2>2
  <2> HIDE DEF p
  <2>6. Follows(p)
    <3> SUFFICES ASSUME NEW k \in 1 .. c + 1
                 PROVE  Task(p[k]).dependencies \subseteq {Task(p[m]).id : m \in 1 .. k - 1}
      BY <2>5
    <3>1. {Task(p[m]).id : m \in 1 .. k - 1} = {Task(o[m]).id : m \in 1 .. k - 1}
      <4>1. \A m \in 1 .. k - 1 : p[m] = o[m]
        BY <2>2, <2>5
      <4> QED
        BY <4>1
    <3>2. CASE k \in 1 .. c
      BY <1>4, <2>2, <2>5, <3>1, <3>2
    <3>3. CASE k = c + 1
      BY <2>2, <2>4, <2>5, <3>1, <3>3
    <3> QED
      BY <2>2, <3>2, <3>3
  <2>7. R \ {i} \in Left
    BY <2>3, <2>6
  <2> QED
    BY <1>3, <2>7
<1> QED
  BY <1>4, <1>5 DEF CanBeCarriedOut

\* An answer that is accepted has one plan in it, which is a list of tasks still when its
\* criteria are grouped, and can be carried out.
LEMMA AcceptedFacts ==
  ASSUME NEW a \in Answers, Accepted(a)
  PROVE  /\ a.thinking # "open"
         /\ IsDraft(Parsed(a)) /\ IsList(PlanOf(Parsed(a)).tasks)
         /\ \E i \in DOMAIN a.values : {j \in DOMAIN a.values : a.values[j] \notin NoPlan} = {i}
<1>1. Parsed(a) \notin NoPlan
  BY DEF Accepted
<1>2. a.thinking # "open" /\ Cardinality(Readings(a)) = 1
  BY <1>1 DEF Parsed, NoPlan
<1>3. /\ IsList(a.values)
      /\ \A i \in DOMAIN a.values : a.values[i] \in NoPlan \/ IsDraft(a.values[i])
  BY DraftAssumption
<1>4. Readings(a) \subseteq DOMAIN a.values /\ IsFiniteSet(DOMAIN a.values)
  <2>1. DOMAIN a.values = 1 .. Len(a.values) /\ Len(a.values) \in Nat
    BY <1>3 DEF IsList
  <2>2. IsFiniteSet(DOMAIN a.values)
    BY <2>1, FS_Interval
  <2> QED
    BY <2>2 DEF Readings
<1>5. PICK i : Readings(a) = {i}
  BY <1>2, <1>4, FS_Subset, FS_Singleton
<1>6. i \in DOMAIN a.values /\ Parsed(a) = a.values[i]
  BY <1>2, <1>4, <1>5 DEF Parsed
<1>7. {j \in DOMAIN a.values : a.values[j] \notin NoPlan} = {i}
  BY <1>1, <1>5, <1>6 DEF Readings, NoPlan
<1>8. IsDraft(Parsed(a))
  BY <1>1, <1>3, <1>6
<1>9. IsList(PlanOf(Parsed(a)).tasks)
  <2> DEFINE v == Parsed(a)
             t == PlanOf(v).tasks
  <2>1. v \in [complete : BOOLEAN, bounded : BOOLEAN, tasks : Seq(ToSet(v.tasks))]
    BY <1>8 DEF IsDraft
  <2>2. t = [k \in DOMAIN v.tasks |-> GroupedTask(v.tasks[k])]
    <3> HIDE DEF v
    <3> QED
      BY <2>1 DEF PlanOf
  <2>3. DOMAIN v.tasks = 1 .. Len(v.tasks) /\ Len(v.tasks) \in Nat
    BY <2>1
  <2> HIDE DEF v, t
  <2>4. DOMAIN t = 1 .. Len(v.tasks) /\ t = [k \in DOMAIN t |-> t[k]]
    BY <2>2, <2>3
  <2>5. \A k \in DOMAIN t : t[k] \in ToSet(t)
    BY DEF ToSet
  <2>6. t \in [1 .. Len(v.tasks) -> ToSet(t)]
    BY <2>4, <2>5
  <2>7. t \in Seq(ToSet(t))
    BY <2>3, <2>6
  <2> QED
    BY <2>7 DEF IsList, v, t
<1> QED
  BY <1>2, <1>6, <1>7, <1>8, <1>9

\* A list has the tasks from 1 to its length.
LEMMA ListFacts ==
  ASSUME NEW s, IsList(s)
  PROVE  Len(s) \in Nat /\ DOMAIN s = 1 .. Len(s)
BY DEF IsList

\* Of every answer: the plan the Planner accepts is the only one in it, the answer was not
\* cut off, and the plan can be carried out.
THEOREM AcceptedPlans == PlansKept
<1> SUFFICES ASSUME NEW a \in Answers, Accepted(a)
             PROVE  /\ a.finish # "length" /\ a.thinking # "open"
                    /\ Cardinality({i \in DOMAIN a.values : a.values[i] \notin NoPlan}) = 1
                    /\ CanBeCarriedOut(PlanOf(Parsed(a)))
  BY DEF PlansKept
<1>1. a.finish # "length" /\ Valid(PlanOf(Parsed(a)))
  BY DEF Accepted
<1>2. Cardinality({i \in DOMAIN a.values : a.values[i] \notin NoPlan}) = 1
  BY AcceptedFacts, FS_Singleton
<1>3. CanBeCarriedOut(PlanOf(Parsed(a)))
  BY <1>1, AcceptedFacts, ListFacts, ValidPlansCanBeCarriedOut
<1> QED
  BY <1>1, <1>2, <1>3, AcceptedFacts

----------------------------------------------------------------------------
\* Criteria that are grouped.

\* Of the numbers up to n with some property, one is the least.
LEMMA LeastNumber ==
  ASSUME NEW n \in Nat, NEW K \in SUBSET (0 .. n), K # {}
  PROVE  \E k \in K : \A j \in K : k <= j
<1> DEFINE F == {0 .. k : k \in K}
<1>1. IsFiniteSet(0 .. n)
  BY FS_Interval
<1>2. PICK R \in F : \A T \in F : T \subseteq R => T = R
  <2>1. \A k \in K : 0 .. k \in SUBSET (0 .. n)
    OBVIOUS
  <2>2. F \in SUBSET SUBSET (0 .. n) /\ F # {}
    BY <2>1
  <2> DEFINE N == 0 .. n
  <2> HIDE DEF F, N
  <2>3. IsFiniteSet(N) /\ F \in SUBSET SUBSET N /\ F # {}
    BY <1>1, <2>2 DEF N
  <2> QED
    BY <2>3, LeastSubset
<1> HIDE DEF F
<1>3. PICK k \in K : R = 0 .. k
  BY <1>2 DEF F
<1>4. ASSUME NEW j \in K, j < k PROVE FALSE
  <2>1. 0 .. j \in F
    BY DEF F
  <2>2. 0 .. j \subseteq 0 .. k /\ k \in 0 .. k /\ k \notin 0 .. j
    BY <1>4
  <2> QED
    BY <1>2, <1>3, <2>1, <2>2
<1>5. k \in Int /\ \A j \in K : j \in Int
  OBVIOUS
<1> QED
  BY <1>4, <1>5

\* What holds of 0, and of a number when it holds of the one before, holds up to n.
LEMMA UpTo ==
  ASSUME NEW n \in Nat, NEW P, 0 \in P, \A m \in 1 .. n : m - 1 \in P => m \in P
  PROVE  0 .. n \subseteq P
<1> DEFINE Bad == (0 .. n) \ P
<1> SUFFICES ASSUME Bad # {} PROVE FALSE
  OBVIOUS
<1>1. Bad \in SUBSET (0 .. n)
  OBVIOUS
<1>2. PICK m \in Bad : \A j \in Bad : m <= j
  <2> HIDE DEF Bad
  <2> QED
    BY <1>1, LeastNumber
<1>3. m \in 1 .. n /\ m - 1 \in 0 .. n /\ ~(m <= m - 1)
  BY <1>2
<1> QED
  BY <1>2, <1>3

\* A function on 0 .. m whose values, in V, each follow from the one before.
Stepped(f, m, V, base, step) ==
  /\ f \in [0 .. m -> V]
  /\ f[0] = base
  /\ \A j \in 1 .. m : f[j] = step[j][f[j - 1]]

\* There is one, as each value has a next one in V.
LEMMA StepByStep ==
  ASSUME NEW m \in Nat, NEW V, NEW base, NEW step,
         base \in V, \A n \in 1 .. m : step[n] \in [V -> V]
  PROVE  \E f : Stepped(f, m, V, base, step)
<1> USE DEF Stepped
<1> DEFINE Good(n, f) == Stepped(f, n, V, base, step)
           P == {n \in 0 .. m : \E f : Good(n, f)}
<1>1. 0 \in P
  <2> DEFINE g == [n \in 0 .. 0 |-> base]
  <2>1. Good(0, g)
    OBVIOUS
  <2>2. 0 \in 0 .. m
    OBVIOUS
  <2> HIDE DEF Good
  <2> QED
    BY <2>1, <2>2
<1>2. ASSUME NEW n \in 1 .. m, n - 1 \in P PROVE n \in P
  <2>1. PICK f : Good(n - 1, f)
    BY <1>2
  <2> DEFINE v == step[n][f[n - 1]]
             g == [j \in 0 .. n |-> IF j = n THEN v ELSE f[j]]
  <2>2. n - 1 \in 0 .. n - 1 /\ f[n - 1] \in V
    BY <2>1
  <2>3. v \in V
    BY <2>2
  <2> HIDE DEF v
  <2>4. g \in [0 .. n -> V] /\ g[0] = base
    BY <2>1, <2>3
  <2>5. ASSUME NEW j \in 1 .. n PROVE g[j] = step[j][g[j - 1]]
    <3>1. g[j - 1] = f[j - 1]
      OBVIOUS
    <3>2. CASE j = n
      BY <3>1, <3>2 DEF v
    <3>3. CASE j # n
      <4>1. j \in 1 .. n - 1
        BY <3>3
      <4>2. g[j] = f[j] /\ f[j] = step[j][f[j - 1]]
        BY <2>1, <3>3, <4>1
      <4> QED
        BY <3>1, <4>2
    <3> QED
      BY <3>2, <3>3
  <2>6. Good(n, g)
    BY <2>4, <2>5
  <2>7. n \in 0 .. m
    OBVIOUS
  <2> HIDE DEF Good
  <2> QED
    BY <2>6, <2>7
<1> HIDE DEF P
<1>3. 0 .. m \subseteq P
  BY <1>1, <1>2, UpTo
<1>4. m \in P
  BY <1>3
<1> QED
  BY <1>4 DEF P

\* Criteria whose lines are in W.
Criterion(W) == [lines : Seq(W), length : Nat]

\* The lines of the first n criteria, for each n.
LinesRun(f, W, s) ==
  /\ f \in [0 .. Len(s) -> Seq(W)]
  /\ f[0] = << >>
  /\ \A n \in 1 .. Len(s) : f[n] = f[n - 1] \o s[n].lines
  /\ Lines(s) = f[Len(s)]

\* The functions that the lines put together are defined by.
FlatUpTo(f, s) ==
  f = [n \in 1 .. Len(s) |-> IF n = 1 THEN s[n] ELSE f[n - 1] \o s[n]]

\* The lines of criteria are put together one criterion after the other.
LEMMA LinesFacts ==
  ASSUME NEW W, NEW s \in Seq(Criterion(W))
  PROVE  \E f : LinesRun(f, W, s)
<1> DEFINE L == Len(s)
           q == [n \in DOMAIN s |-> s[n].lines]
           F == CHOOSE g : FlatUpTo(g, q)
           step == [n \in 1 .. L |-> [v \in Seq(W) |-> v \o q[n]]]
<1>1. L \in Nat /\ DOMAIN s = 1 .. L /\ \A n \in 1 .. L : s[n] \in Criterion(W)
  OBVIOUS
<1>2. /\ q \in [1 .. L -> Seq(W)] /\ Len(q) = L
      /\ \A n \in 1 .. L : q[n] = s[n].lines
  <2>1. \A n \in 1 .. L : s[n].lines \in Seq(W)
    BY <1>1 DEF Criterion
  <2> QED
    BY <1>1, <2>1
<1>3. /\ << >> \in Seq(W) /\ \A v, u \in Seq(W) : v \o u \in Seq(W)
      /\ \A v \in Seq(W) : << >> \o v = v
  BY ConcatProperties, ConcatEmptySeq
<1> HIDE DEF q, L
<1>4. \A n \in 1 .. L : step[n] \in [Seq(W) -> Seq(W)]
  BY <1>2, <1>3
<1>5. PICK f : Stepped(f, L, Seq(W), << >>, step)
  <2> HIDE DEF step
  <2> QED
    BY <1>1, <1>3, <1>4, StepByStep
<1>6. /\ f \in [0 .. L -> Seq(W)] /\ f[0] = << >>
      /\ \A n \in 1 .. L : f[n] = f[n - 1] \o q[n]
  <2>1. \A n \in 1 .. L : n - 1 \in 0 .. L
    BY <1>1
  <2>2. \A n \in 1 .. L : f[n - 1] \in Seq(W)
    BY <1>5, <2>1 DEF Stepped
  <2> QED
    BY <1>5, <2>2 DEF Stepped
<1> HIDE DEF step
<1>0. \A n \in 1 .. L : n = 1 => f[n] = q[n]
  <2> SUFFICES ASSUME NEW n \in 1 .. L, n = 1 PROVE f[n] = q[n]
    OBVIOUS
  <2>1. n - 1 = 0 /\ q[n] \in Seq(W)
    BY <1>2
  <2>2. f[n] = f[n - 1] \o q[n]
    BY <1>6
  <2>3. f[n] = << >> \o q[n]
    BY <1>6, <2>1, <2>2
  <2> QED
    BY <1>3, <2>1, <2>3
<1> DEFINE g == [n \in 1 .. L |-> f[n]]
<1>7. FlatUpTo(g, q)
  <2>1. ASSUME NEW n \in 1 .. L PROVE g[n] = IF n = 1 THEN q[n] ELSE g[n - 1] \o q[n]
    <3>1. CASE n = 1
      BY <1>0, <3>1
    <3>2. CASE n # 1
      <4>1. n - 1 \in 1 .. L
        BY <1>1, <3>2
      <4> QED
        BY <1>6, <3>2, <4>1
    <3> QED
      BY <3>1, <3>2
  <2> QED
    BY <1>2, <2>1 DEF FlatUpTo
<1>8. FlatUpTo(F, q)
  BY <1>7
<1> HIDE DEF F
<1>9. \A n \in 1 .. L : F[n] = IF n = 1 THEN q[n] ELSE F[n - 1] \o q[n]
  BY <1>2, <1>8 DEF FlatUpTo
<1> DEFINE P == {n \in 0 .. L : n = 0 \/ F[n] = f[n]}
<1>10. 0 .. L \subseteq P
  <2>1. 0 \in P
    BY <1>1
  <2>2. ASSUME NEW n \in 1 .. L, n - 1 \in P PROVE n \in P
    <3>1. n \in 0 .. L /\ n - 1 \in 0 .. L
      BY <1>1
    <3>2. CASE n = 1
      BY <1>0, <1>9, <3>1, <3>2
    <3>3. CASE n # 1
      <4>1. n - 1 # 0 /\ F[n - 1] = f[n - 1]
        BY <1>1, <2>2, <3>3
      <4> QED
        BY <1>6, <1>9, <3>1, <3>3, <4>1
    <3> QED
      BY <3>2, <3>3
  <2> HIDE DEF P
  <2> QED
    BY <1>1, <2>1, <2>2, UpTo
<1>11. Lines(s) = f[L]
  <2>1. Lines(s) = FlattenSeq(q)
    BY DEF Lines, q
  <2>2. CASE L = 0
    <3>1. FlattenSeq(q) = q
      BY <1>2, <2>2 DEF FlattenSeq
    <3>2. q = << >>
      BY <1>2, <2>2
    <3> QED
      BY <1>6, <2>1, <2>2, <3>1, <3>2
  <2>3. CASE L # 0
    <3>1. FlattenSeq(q) = F[L]
      BY <1>2, <2>3 DEF FlattenSeq, F, FlatUpTo
    <3>2. L \in P
      BY <1>1, <1>10
    <3> QED
      BY <2>1, <2>3, <3>1, <3>2
  <2> QED
    BY <2>2, <2>3
<1>12. LinesRun(f, W, s)
  BY <1>2, <1>6, <1>11 DEF LinesRun, L
<1> QED
  BY <1>12

\* A criterion at the end has its lines at the end.
LEMMA LinesAppend ==
  ASSUME NEW W, NEW s \in Seq(Criterion(W)), NEW c \in Criterion(W)
  PROVE  Lines(s) \in Seq(W) /\ Lines(Append(s, c)) = Lines(s) \o c.lines
<1> DEFINE L == Len(s)
           t == Append(s, c)
<1>1. /\ L \in Nat /\ t \in Seq(Criterion(W)) /\ Len(t) = L + 1
      /\ \A n \in 1 .. L : t[n] = s[n]
      /\ t[L + 1] = c
  BY AppendProperties
<1>2. PICK f : LinesRun(f, W, s)
  BY LinesFacts
<1>3. PICK g : LinesRun(g, W, t)
  BY <1>1, LinesFacts
<1> HIDE DEF t
<1> DEFINE P == {n \in 0 .. L : f[n] = g[n]}
<1>4. 0 .. L \subseteq P
  <2>1. 0 \in P
    BY <1>1, <1>2, <1>3 DEF LinesRun
  <2>2. ASSUME NEW n \in 1 .. L, n - 1 \in P PROVE n \in P
    <3>1. n \in 0 .. L /\ n \in 1 .. Len(t)
      BY <1>1
    <3>2. f[n] = f[n - 1] \o s[n].lines /\ g[n] = g[n - 1] \o t[n].lines
      BY <1>2, <1>3, <3>1 DEF LinesRun
    <3> QED
      BY <1>1, <2>2, <3>1, <3>2
  <2> HIDE DEF P, L
  <2> QED
    BY <1>1, <2>1, <2>2, UpTo
<1>5. L \in 0 .. L /\ f[L] = g[L]
  BY <1>1, <1>4
<1>6. L + 1 \in 1 .. Len(t) /\ (L + 1) - 1 = L
  BY <1>1
<1>7. g[L + 1] = g[L] \o c.lines
  BY <1>1, <1>3, <1>6 DEF LinesRun
<1>8. Lines(t) = g[L + 1] /\ Lines(s) = f[L]
  BY <1>1, <1>2, <1>3 DEF LinesRun
<1>9. f[L] \in Seq(W)
  BY <1>2, <1>5 DEF LinesRun
<1> QED
  BY <1>5, <1>7, <1>8, <1>9 DEF t

\* What is at hand between two criteria.
Taking(W) == [grouped : Seq(Criterion(W)), pairs : Nat, next : Nat]

\* After the first n criteria of L each one seen is in a group, of which pairs have two.
CountsAdd(surplus, L, n, s) ==
  /\ s.next \in {n + 1, n + 2} /\ s.next <= L + 1
  /\ s.pairs <= surplus /\ 2 * s.pairs <= s.next - 1
  /\ Len(s.grouped) = s.next - 1 - s.pairs

\* The groups have the lines f of the criteria seen, and no group is too long.
SaysTheSame(criteria, f, s) ==
  /\ Lines(s.grouped) = f[s.next - 1]
  /\ \A c \in ToSet(s.grouped) : c.length <= MaxLength \/ c \in ToSet(criteria)

\* Where pairs could be made, none next to another.
Places(criteria) ==
  {P \in SUBSET {i \in 1 .. Len(criteria) - 1 : CanPair(criteria[i], criteria[i + 1])} :
     \A i \in P : i + 1 \notin P}

\* No choice of places has more pairs among the criteria seen.
PairsAreMost(criteria, surplus, s) ==
  \A P \in Places(criteria) :
    s.pairs < surplus => Cardinality(P \intersect (1 .. s.next - 1)) <= s.pairs

\* There is a pair to be made at n.
CanPairAt(criteria, n) == n < Len(criteria) /\ CanPair(criteria[n], criteria[n + 1])

\* A criterion that makes no pair with the one after it is no place.
LEMMA NoPlaceStep ==
  ASSUME NEW criteria, NEW L \in Nat, L = Len(criteria), NEW P \in Places(criteria), NEW n \in 1 .. L,
         ~CanPairAt(criteria, n)
  PROVE  Cardinality(P \intersect (1 .. n)) = Cardinality(P \intersect (1 .. n - 1))
<1>1. n \notin P
  <2>1. P \subseteq {i \in 1 .. L - 1 : CanPair(criteria[i], criteria[i + 1])}
    BY DEF Places
  <2> QED
    BY <2>1 DEF CanPairAt
<1>2. \A i \in 1 .. n : i = n \/ i \in 1 .. n - 1
  OBVIOUS
<1>3. \A i \in 1 .. n - 1 : i \in 1 .. n
  OBVIOUS
<1>4. P \intersect (1 .. n) = P \intersect (1 .. n - 1)
  BY <1>1, <1>2, <1>3
<1> QED
  BY <1>4

\* Of two places next to each other there is at most one.
LEMMA PlacesStep ==
  ASSUME NEW criteria, NEW L \in Nat, L = Len(criteria), NEW P \in Places(criteria), NEW n \in 1 .. L
  PROVE  /\ Cardinality(P \intersect (1 .. n + 1)) <= Cardinality(P \intersect (1 .. n - 1)) + 1
         /\ Cardinality(P \intersect (1 .. n - 1)) \in Nat
<1> DEFINE Q(m) == P \intersect (1 .. m)
<1>1. /\ P \subseteq {i \in 1 .. L - 1 : CanPair(criteria[i], criteria[i + 1])}
      /\ \A i \in P : i + 1 \notin P
  BY DEF Places
<1>2. IsFiniteSet(Q(n - 1)) /\ Cardinality(Q(n - 1)) \in Nat
  <2>1. IsFiniteSet(1 .. n - 1)
    BY FS_Interval
  <2>2. IsFiniteSet(Q(n - 1))
    BY <2>1, FS_Subset
  <2> QED
    BY <2>2, FS_CardinalityType
<1>4. PICK x : Q(n + 1) \subseteq Q(n - 1) \union {x}
  <2>1. \A i \in 1 .. n + 1 : i = n \/ i = n + 1 \/ i \in 1 .. n - 1
    OBVIOUS
  <2>2. n \notin P \/ n + 1 \notin P
    BY <1>1
  <2>3. Q(n + 1) \subseteq Q(n - 1) \union {n} \/ Q(n + 1) \subseteq Q(n - 1) \union {n + 1}
    BY <2>1, <2>2
  <2> HIDE DEF Q
  <2> QED
    BY <2>3
<1> HIDE DEF Q
<1>5. Cardinality(Q(n + 1)) <= Cardinality(Q(n - 1)) + 1
  <2> DEFINE R == Q(n - 1) \union {x}
  <2>1. IsFiniteSet(R) /\ Cardinality(R) <= Cardinality(Q(n - 1)) + 1
    <3> DEFINE A == Q(n - 1)
    <3>1. IsFiniteSet(A) /\ Cardinality(A) \in Nat /\ R = A \union {x}
      BY <1>2
    <3> HIDE DEF A, R
    <3>2. /\ IsFiniteSet(R)
          /\ Cardinality(R) = IF x \in A THEN Cardinality(A) ELSE Cardinality(A) + 1
      BY <3>1, FS_AddElement
    <3>3. Cardinality(R) <= Cardinality(A) + 1
      BY <3>1, <3>2
    <3> QED
      BY <3>2, <3>3 DEF A
  <2>2. Q(n + 1) \in SUBSET R
    BY <1>4
  <2> HIDE DEF R
  <2>3. Cardinality(Q(n + 1)) <= Cardinality(R) /\ IsFiniteSet(Q(n + 1))
    BY <2>1, <2>2, FS_Subset
  <2>4. Cardinality(R) \in Nat /\ Cardinality(Q(n + 1)) \in Nat
    BY <2>1, <2>3, FS_CardinalityType
  <2> QED
    BY <1>2, <2>1, <2>3, <2>4
<1> QED
  BY <1>2, <1>5 DEF Q

LEMMA PairFacts ==
  ASSUME NEW W, NEW b \in Criterion(W), NEW c \in Criterion(W)
  PROVE  /\ Pair(b, c) \in Criterion(W)
         /\ Pair(b, c).lines = b.lines \o c.lines
         /\ CanPair(b, c) => Pair(b, c).length <= MaxLength
<1>1. /\ b.lines \in Seq(W) /\ c.lines \in Seq(W)
      /\ b.length \in Nat /\ c.length \in Nat
  BY DEF Criterion
<1>2. b.lines \o c.lines \in Seq(W)
  BY <1>1, ConcatProperties
<1> QED
  BY <1>1, <1>2 DEF Pair, CanPair, Criterion

\* Putting three sequences together, either two of them may come first.
InAnyGrouping(x, y, z) == (x \o y) \o z = x \o (y \o z)

LEMMA ConcatThree ==
  ASSUME NEW W, NEW x \in Seq(W), NEW y \in Seq(W), NEW z \in Seq(W)
  PROVE  InAnyGrouping(x, y, z)
BY ConcatAssociative DEF InAnyGrouping

\* A pair at the end has the lines of the one and then those of the other at the end.
LEMMA LinesOfPair ==
  ASSUME NEW W, NEW b \in Criterion(W), NEW c \in Criterion(W), NEW h \in Seq(Criterion(W)),
         NEW criteria, NEW f, LinesRun(f, W, criteria), NEW n \in 1 .. Len(criteria),
         n + 1 \in 1 .. Len(criteria), (n + 1) - 1 = n,
         b = criteria[n], c = criteria[n + 1], Lines(h) = f[n - 1]
  PROVE  Lines(Append(h, Pair(b, c))) = f[n + 1]
<1> DEFINE d == Pair(b, c)
           x == Lines(h)
           y == b.lines
           z == c.lines
<1>1. d \in Criterion(W) /\ d.lines = y \o z
  BY PairFacts
<1> HIDE DEF d
<1>2. x \in Seq(W) /\ Lines(Append(h, d)) = x \o d.lines
  BY <1>1, LinesAppend
<1>3. y \in Seq(W) /\ z \in Seq(W)
  BY DEF Criterion
<1>4. f[n] = x \o y
  BY DEF LinesRun
<1>5. f[n + 1] = f[n] \o z
  BY DEF LinesRun
<1> HIDE DEF x, y, z
<1>6. InAnyGrouping(x, y, z)
  BY <1>2, <1>3, ConcatThree
<1>7. Lines(Append(h, d)) = f[n + 1]
  BY <1>1, <1>2, <1>4, <1>5, <1>6 DEF InAnyGrouping
<1> QED
  BY <1>7 DEF d

LEMMA AppendSet ==
  ASSUME NEW S, NEW s \in Seq(S), NEW x \in S
  PROVE  ToSet(Append(s, x)) = ToSet(s) \union {x}
<1> DEFINE t == Append(s, x)
           L == Len(s)
<1>1. /\ L \in Nat /\ DOMAIN s = 1 .. L /\ DOMAIN t = 1 .. L + 1
      /\ \A i \in 1 .. L : t[i] = s[i]
      /\ t[L + 1] = x
  OBVIOUS
<1>2. \A i \in 1 .. L + 1 : i \in 1 .. L \/ i = L + 1
  BY <1>1
<1>3. L + 1 \in 1 .. L + 1 /\ \A i \in 1 .. L : i \in 1 .. L + 1
  BY <1>1
<1> HIDE DEF t, L
<1>4. ToSet(t) = ToSet(s) \union {x}
  BY <1>1, <1>2, <1>3 DEF ToSet
<1> QED
  BY <1>4 DEF t

\* What Visit makes of s at n: a pair with the criterion after it, or a group of one.
PairIsMade(criteria, surplus, n, s, t) ==
  /\ ~(n < s.next) /\ s.pairs < surplus /\ CanPairAt(criteria, n)
  /\ t = [grouped |-> Append(s.grouped, Pair(criteria[n], criteria[n + 1])),
          pairs |-> s.pairs + 1, next |-> n + 2]

IsAlone(criteria, surplus, n, s, t) ==
  /\ ~(n < s.next)
  /\ s.pairs < surplus => ~CanPairAt(criteria, n)
  /\ t = [s EXCEPT !.grouped = Append(s.grouped, criteria[n]), !.next = n + 1]

LEMMA VisitCases ==
  ASSUME NEW criteria, NEW surplus, NEW n, NEW s, NEW t, t = Visit(criteria, surplus, s, n)
  PROVE  \/ n < s.next /\ t = s
         \/ PairIsMade(criteria, surplus, n, s, t)
         \/ IsAlone(criteria, surplus, n, s, t)
BY DEF Visit, PairIsMade, IsAlone, CanPairAt

\* A criterion alone is added with its line.
LEMMA AloneStep ==
  ASSUME NEW W, NEW criteria \in Seq(Criterion(W)), NEW surplus \in Nat, NEW L, L = Len(criteria),
         NEW f, LinesRun(f, W, criteria), NEW n \in 1 .. L, NEW s \in Taking(W),
         CountsAdd(surplus, L, n - 1, s), SaysTheSame(criteria, f, s),
         NEW t, IsAlone(criteria, surplus, n, s, t)
  PROVE  /\ t \in Taking(W) /\ CountsAdd(surplus, L, n, t) /\ SaysTheSame(criteria, f, t)
         /\ PairsAreMost(criteria, surplus, s) => PairsAreMost(criteria, surplus, t)
<1> DEFINE c == criteria[n]
           g == Append(s.grouped, c)
<1>1. /\ L \in Nat /\ c \in Criterion(W) /\ c \in ToSet(criteria)
      /\ s.grouped \in Seq(Criterion(W)) /\ s.pairs \in Nat /\ s.next \in Nat
  BY DEF Taking, ToSet
<1>2. g \in Seq(Criterion(W)) /\ Len(g) = Len(s.grouped) + 1
  BY <1>1, AppendProperties
<1>3. /\ t.grouped = g /\ t.pairs = s.pairs /\ t.next = n + 1
      /\ t \in [grouped : {g}, pairs : {s.pairs}, next : {n + 1}]
  BY DEF Taking, IsAlone
<1>4. s.next = n
  BY <1>1 DEF CountsAdd, IsAlone
<1>5. n - 1 \in 0 .. L /\ (n + 1) - 1 = n /\ n + 1 \in Nat
  BY <1>1
<1>6. Lines(g) = f[n]
  <2>1. Lines(g) = Lines(s.grouped) \o c.lines
    BY <1>1, LinesAppend
  <2>2. Lines(s.grouped) = f[n - 1]
    BY <1>4 DEF SaysTheSame
  <2>3. f[n] = f[n - 1] \o c.lines
    BY DEF LinesRun
  <2> QED
    BY <2>1, <2>2, <2>3
<1>7. ToSet(g) = ToSet(s.grouped) \union {c}
  BY <1>1, AppendSet
<1> HIDE DEF g, c
<1>8. t \in Taking(W)
  BY <1>1, <1>2, <1>3, <1>5 DEF Taking
<1>9. CountsAdd(surplus, L, n, t)
  BY <1>1, <1>2, <1>3, <1>4 DEF CountsAdd
<1>10. SaysTheSame(criteria, f, t)
  BY <1>1, <1>3, <1>5, <1>6, <1>7 DEF SaysTheSame
<1>11. ASSUME PairsAreMost(criteria, surplus, s) PROVE PairsAreMost(criteria, surplus, t)
  <2> SUFFICES ASSUME NEW P \in Places(criteria), s.pairs < surplus
               PROVE  Cardinality(P \intersect (1 .. n)) <= s.pairs
    BY <1>3, <1>5 DEF PairsAreMost
  <2>1. Cardinality(P \intersect (1 .. n - 1)) <= s.pairs
    BY <1>4, <1>11 DEF PairsAreMost
  <2>2. ~CanPairAt(criteria, n)
    BY DEF IsAlone
  <2>3. Cardinality(P \intersect (1 .. n)) = Cardinality(P \intersect (1 .. n - 1))
    BY <1>1, <2>2, NoPlaceStep
  <2> QED
    BY <2>1, <2>3
<1> QED
  BY <1>8, <1>9, <1>10, <1>11

\* A pair is added with the lines of both.
LEMMA PairStep ==
  ASSUME NEW W, NEW criteria \in Seq(Criterion(W)), NEW surplus \in Nat, NEW L, L = Len(criteria),
         NEW f, LinesRun(f, W, criteria), NEW n \in 1 .. L, NEW s \in Taking(W),
         CountsAdd(surplus, L, n - 1, s), SaysTheSame(criteria, f, s),
         NEW t, PairIsMade(criteria, surplus, n, s, t)
  PROVE  /\ t \in Taking(W) /\ CountsAdd(surplus, L, n, t) /\ SaysTheSame(criteria, f, t)
         /\ PairsAreMost(criteria, surplus, s) => PairsAreMost(criteria, surplus, t)
<1> DEFINE b == criteria[n]
           c == criteria[n + 1]
           d == Pair(b, c)
           g == Append(s.grouped, d)
<1>1. /\ L \in Nat /\ n < L /\ b \in Criterion(W) /\ c \in Criterion(W) /\ CanPair(b, c)
      /\ s.grouped \in Seq(Criterion(W)) /\ s.pairs \in Nat /\ s.next \in Nat
      /\ s.pairs < surplus
  BY DEF Taking, PairIsMade, CanPairAt
<1>2. d \in Criterion(W) /\ d.lines = b.lines \o c.lines /\ d.length <= MaxLength
  BY <1>1, PairFacts
<1> HIDE DEF d
<1>3. g \in Seq(Criterion(W)) /\ Len(g) = Len(s.grouped) + 1
  BY <1>1, <1>2, AppendProperties
<1>4. t = [grouped |-> g, pairs |-> s.pairs + 1, next |-> n + 2]
  BY DEF d, PairIsMade
<1>5. s.next = n
  BY <1>1 DEF CountsAdd, PairIsMade
<1>6. n - 1 \in 0 .. L /\ n + 1 \in 1 .. L /\ (n + 1) - 1 = n /\ (n + 2) - 1 = n + 1 /\ n + 2 \in Nat
  BY <1>1
<1>7. Lines(g) = f[n + 1]
  <2>1. Lines(s.grouped) = f[n - 1]
    BY <1>5 DEF SaysTheSame
  <2> QED
    BY <1>1, <1>6, <2>1, LinesOfPair DEF d
<1>8. ToSet(g) = ToSet(s.grouped) \union {d}
  BY <1>1, <1>2, AppendSet
<1> HIDE DEF g
<1>9. /\ t \in Taking(W)
      /\ t.grouped = g /\ t.pairs = s.pairs + 1 /\ t.next = n + 2
  BY <1>1, <1>3, <1>4, <1>6 DEF Taking
<1>10. CountsAdd(surplus, L, n, t)
  <2> DEFINE k == s.pairs
             m == Len(s.grouped)
  <2>1. k \in Nat /\ k < surplus /\ 2 * k <= n - 1 /\ m = n - 1 - k
    BY <1>1, <1>5 DEF CountsAdd
  <2>2. Len(g) = m + 1 /\ t.grouped = g /\ t.pairs = k + 1 /\ t.next = n + 2
    BY <1>3, <1>9
  <2> HIDE DEF k, m
  <2>3. k + 1 <= surplus /\ 2 * (k + 1) <= (n + 2) - 1 /\ m + 1 = (n + 2) - 1 - (k + 1)
    BY <2>1
  <2>4. n + 2 <= L + 1
    BY <1>1
  <2> QED
    BY <2>2, <2>3, <2>4 DEF CountsAdd
<1>11. SaysTheSame(criteria, f, t)
  BY <1>2, <1>6, <1>7, <1>8, <1>9 DEF SaysTheSame
<1>12. ASSUME PairsAreMost(criteria, surplus, s) PROVE PairsAreMost(criteria, surplus, t)
  <2> SUFFICES ASSUME NEW P \in Places(criteria)
               PROVE  Cardinality(P \intersect (1 .. n + 1)) <= s.pairs + 1
    BY <1>6, <1>9 DEF PairsAreMost
  <2>1. Cardinality(P \intersect (1 .. n - 1)) <= s.pairs
    BY <1>1, <1>5, <1>12 DEF PairsAreMost
  <2>2. /\ Cardinality(P \intersect (1 .. n + 1)) <= Cardinality(P \intersect (1 .. n - 1)) + 1
        /\ Cardinality(P \intersect (1 .. n - 1)) \in Nat
    BY <1>1, PlacesStep
  <2>3. Cardinality(P \intersect (1 .. n + 1)) \in Nat
    <3>1. IsFiniteSet(1 .. n + 1)
      BY FS_Interval
    <3>2. IsFiniteSet(P \intersect (1 .. n + 1))
      BY <3>1, FS_Subset
    <3> QED
      BY <3>2, FS_CardinalityType
  <2> DEFINE A == Cardinality(P \intersect (1 .. n + 1))
             B == Cardinality(P \intersect (1 .. n - 1))
  <2> HIDE DEF A, B
  <2>4. A \in Nat /\ B \in Nat /\ A <= B + 1 /\ B <= s.pairs
    BY <2>1, <2>2, <2>3 DEF A, B
  <2>5. A <= s.pairs + 1
    BY <1>1, <2>4
  <2> QED
    BY <2>5 DEF A
<1> QED
  BY <1>9, <1>10, <1>11, <1>12

\* The function that Pairs is defined by.
PairsUpTo(F, criteria, surplus) ==
  F = [n \in 0 .. Len(criteria) |->
         IF n = 0 THEN NoPairs ELSE Visit(criteria, surplus, F[n - 1], n)]

\* What has been made of the first n criteria.
PairsSound(W, criteria, surplus, f, n, s) ==
  /\ s \in Taking(W)
  /\ CountsAdd(surplus, Len(criteria), n, s) /\ SaysTheSame(criteria, f, s)
  /\ PairsAreMost(criteria, surplus, s)

LEMMA VisitIsSound ==
  ASSUME NEW W, NEW criteria \in Seq(Criterion(W)), NEW surplus \in Nat,
         NEW f, LinesRun(f, W, criteria), NEW n \in 1 .. Len(criteria), NEW s,
         PairsSound(W, criteria, surplus, f, n - 1, s)
  PROVE  PairsSound(W, criteria, surplus, f, n, Visit(criteria, surplus, s, n))
<1> DEFINE t == Visit(criteria, surplus, s, n)
           L == Len(criteria)
<1>1. /\ s \in Taking(W) /\ L \in Nat /\ s.next \in Nat
      /\ CountsAdd(surplus, L, n - 1, s) /\ SaysTheSame(criteria, f, s)
      /\ PairsAreMost(criteria, surplus, s)
  BY DEF PairsSound, Taking
<1> SUFFICES /\ t \in Taking(W) /\ CountsAdd(surplus, L, n, t) /\ SaysTheSame(criteria, f, t)
             /\ PairsAreMost(criteria, surplus, t)
  BY DEF PairsSound
<1> HIDE DEF t
<1>2. CASE n < s.next /\ t = s
  <2>1. CountsAdd(surplus, L, n, s)
    BY <1>1, <1>2 DEF CountsAdd
  <2> QED
    BY <1>1, <1>2, <2>1
<1>3. CASE PairIsMade(criteria, surplus, n, s, t)
  BY <1>1, <1>3, PairStep
<1>4. CASE IsAlone(criteria, surplus, n, s, t)
  BY <1>1, <1>4, AloneStep
<1> QED
  <2>1. t = Visit(criteria, surplus, s, n)
    BY DEF t
  <2>2. (n < s.next /\ t = s) \/ PairIsMade(criteria, surplus, n, s, t) \/ IsAlone(criteria, surplus, n, s, t)
    BY <2>1, VisitCases
  <2> QED
    BY <1>2, <1>3, <1>4, <2>2

\* Pairs is sound when all criteria have been seen.
LEMMA PairsAreSound ==
  ASSUME NEW W, NEW criteria \in Seq(Criterion(W)), NEW surplus \in Nat,
         NEW f, LinesRun(f, W, criteria)
  PROVE  PairsSound(W, criteria, surplus, f, Len(criteria), Pairs(criteria, surplus))
<1> DEFINE L == Len(criteria)
           V == Taking(W)
           F == CHOOSE g : PairsUpTo(g, criteria, surplus)
           step == [n \in 1 .. L |-> [s \in V |-> Visit(criteria, surplus, s, n)]]
           Good(n, s) == PairsSound(W, criteria, surplus, f, n, s)
<1>1. L \in Nat /\ \A n \in 1 .. L : criteria[n] \in Criterion(W)
  OBVIOUS
<1>2. ASSUME NEW n \in 1 .. L, NEW s \in V PROVE Visit(criteria, surplus, s, n) \in V
  <2>1. /\ s.grouped \in Seq(Criterion(W)) /\ s.pairs \in Nat /\ s.next \in Nat
        /\ n + 1 \in Nat /\ n + 2 \in Nat /\ s.pairs + 1 \in Nat
    BY <1>1 DEF Taking
  <2>2. Append(s.grouped, criteria[n]) \in Seq(Criterion(W))
    BY <1>1, <2>1, AppendProperties
  <2>3. n < L => Append(s.grouped, Pair(criteria[n], criteria[n + 1])) \in Seq(Criterion(W))
    <3> SUFFICES ASSUME n < L
                 PROVE  Append(s.grouped, Pair(criteria[n], criteria[n + 1])) \in Seq(Criterion(W))
      OBVIOUS
    <3>1. n + 1 \in 1 .. L
      BY <1>1
    <3>2. Pair(criteria[n], criteria[n + 1]) \in Criterion(W)
      BY <1>1, <3>1, PairFacts
    <3> QED
      BY <2>1, <3>2, AppendProperties
  <2> DEFINE t == Visit(criteria, surplus, s, n)
  <2> HIDE DEF t
  <2>4. \/ t = s
        \/ PairIsMade(criteria, surplus, n, s, t)
        \/ IsAlone(criteria, surplus, n, s, t)
    <3>1. t = Visit(criteria, surplus, s, n)
      BY DEF t
    <3> QED
      BY <3>1, VisitCases
  <2>5. ASSUME PairIsMade(criteria, surplus, n, s, t) PROVE t \in V
    BY <2>1, <2>3, <2>5 DEF Taking, PairIsMade, CanPairAt
  <2>6. ASSUME IsAlone(criteria, surplus, n, s, t) PROVE t \in V
    <3> DEFINE g == Append(s.grouped, criteria[n])
    <3>1. t \in [grouped : {g}, pairs : {s.pairs}, next : {n + 1}]
      BY <2>6 DEF Taking, IsAlone
    <3>2. g \in Seq(Criterion(W))
      BY <2>2
    <3> HIDE DEF g
    <3> QED
      BY <2>1, <3>1, <3>2 DEF Taking
  <2>7. t \in V
    BY <2>4, <2>5, <2>6
  <2> QED
    BY <2>7 DEF t
<1>3. NoPairs \in V /\ Good(0, NoPairs)
  <2>1. << >> \in Seq(Criterion(W)) /\ Len(<< >>) = 0 /\ ToSet(<< >>) = {}
    BY DEF ToSet
  <2>2. NoPairs.grouped = << >> /\ NoPairs.pairs = 0 /\ NoPairs.next = 1 /\ NoPairs \in V
    BY <2>1 DEF NoPairs, Taking
  <2>3. CountsAdd(surplus, L, 0, NoPairs)
    BY <1>1, <2>1, <2>2 DEF CountsAdd
  <2>4. Lines(<< >>) = << >>
    <3>1. PICK g : LinesRun(g, W, << >>)
      BY <2>1, LinesFacts
    <3> QED
      BY <2>1, <3>1 DEF LinesRun
  <2>5. SaysTheSame(criteria, f, NoPairs)
    <3>1. f[0] = << >> /\ 1 - 1 = 0
      BY DEF LinesRun
    <3> QED
      BY <2>1, <2>2, <2>4, <3>1 DEF SaysTheSame
  <2>6. PairsAreMost(criteria, surplus, NoPairs)
    <3>1. \A P : P \intersect (1 .. 1 - 1) = {}
      OBVIOUS
    <3>2. Cardinality({}) = 0
      BY FS_EmptySet
    <3> QED
      BY <2>2, <3>1, <3>2 DEF PairsAreMost
  <2> QED
    BY <2>2, <2>3, <2>5, <2>6 DEF PairsSound
<1>4. \A n \in 1 .. L : step[n] \in [V -> V]
  BY <1>2
<1>5. PICK g : Stepped(g, L, V, NoPairs, step)
  <2> HIDE DEF step, L, V
  <2> QED
    BY <1>1, <1>3, <1>4, StepByStep
<1>6. ASSUME NEW n \in 1 .. L PROVE g[n] = Visit(criteria, surplus, g[n - 1], n)
  <2>1. g[n - 1] \in V
    BY <1>1, <1>5 DEF Stepped
  <2> HIDE DEF V
  <2> QED
    BY <1>5, <2>1 DEF Stepped
<1> HIDE DEF step
<1>7. PairsUpTo(g, criteria, surplus)
  <2> HIDE DEF V
  <2> QED
    BY <1>1, <1>5, <1>6 DEF PairsUpTo, Stepped
<1>8. PairsUpTo(F, criteria, surplus)
  BY <1>7
<1>9. Pairs(criteria, surplus) = F[L]
  BY DEF Pairs, PairsUpTo
<1> HIDE DEF F
<1>10. F[0] = NoPairs /\ \A n \in 1 .. L : F[n] = Visit(criteria, surplus, F[n - 1], n)
  <2>1. F = [n \in 0 .. L |-> IF n = 0 THEN NoPairs ELSE Visit(criteria, surplus, F[n - 1], n)]
    BY <1>8 DEF PairsUpTo
  <2>2. 0 \in 0 .. L /\ \A n \in 1 .. L : n \in 0 .. L /\ n # 0
    BY <1>1
  <2> HIDE DEF L
  <2> QED
    BY <2>1, <2>2
<1> DEFINE R == {n \in 0 .. L : Good(n, F[n])}
<1>11. 0 \in R
  <2>1. 0 \in 0 .. L
    BY <1>1
  <2> HIDE DEF Good, L
  <2> QED
    BY <1>3, <1>10, <2>1
<1>12. ASSUME NEW n \in 1 .. L, n - 1 \in R PROVE n \in R
  <2>1. n \in 0 .. L /\ Good(n - 1, F[n - 1])
    BY <1>12
  <2>2. Good(n, F[n])
    BY <1>10, <2>1, VisitIsSound
  <2> HIDE DEF Good
  <2> QED
    BY <2>1, <2>2
<1>13. 0 .. L \subseteq R
  <2> HIDE DEF R, L
  <2> QED
    BY <1>1, <1>11, <1>12, UpTo
<1>14. L \in R
  BY <1>1, <1>13
<1> QED
  BY <1>9, <1>14

\* Grouping keeps every line, makes no group that is too long, and finds the pairs it needs
\* whenever there are some.
LEMMA GroupedFacts ==
  ASSUME NEW W, NEW criteria \in Seq(Criterion(W))
  PROVE  /\ Lines(Grouped(criteria)) = Lines(criteria)
         /\ \A c \in ToSet(Grouped(criteria)) : c.length <= MaxLength \/ c \in ToSet(criteria)
         /\ /\ Len(criteria) > MaxCriteria /\ CanBeGrouped(criteria)
            /\ \A c \in ToSet(criteria) : c.length <= MaxLength
            => Len(Grouped(criteria)) = MaxCriteria
<1> DEFINE L == Len(criteria)
           surplus == L - MaxCriteria
           all == Pairs(criteria, surplus)
           Fit == /\ L > MaxCriteria /\ surplus <= L \div 2
                  /\ \A i \in DOMAIN criteria : criteria[i].length <= MaxLength
                  /\ all.pairs = surplus
<1>1. /\ L \in Nat /\ MaxCriteria \in Nat /\ DOMAIN criteria = 1 .. L
      /\ Grouped(criteria) = IF Fit THEN all.grouped ELSE criteria
  BY DraftAssumption DEF Grouped
<1>2. PICK f : LinesRun(f, W, criteria)
  BY LinesFacts
<1> HIDE DEF all
<1>3. ASSUME L > MaxCriteria
      PROVE  /\ surplus \in Nat /\ all \in Taking(W) /\ all.next = L + 1
             /\ all.pairs \in Nat /\ all.pairs <= surplus /\ 2 * all.pairs <= L
             /\ Len(all.grouped) = L - all.pairs
             /\ Lines(all.grouped) = Lines(criteria)
             /\ \A c \in ToSet(all.grouped) : c.length <= MaxLength \/ c \in ToSet(criteria)
             /\ PairsAreMost(criteria, surplus, all)
  <2>1. surplus \in Nat
    BY <1>1, <1>3
  <2> HIDE DEF surplus
  <2>2. PairsSound(W, criteria, surplus, f, L, all)
    BY <1>2, <2>1, PairsAreSound DEF all
  <2>3. /\ all \in Taking(W) /\ CountsAdd(surplus, L, L, all) /\ SaysTheSame(criteria, f, all)
        /\ PairsAreMost(criteria, surplus, all)
    BY <2>2 DEF PairsSound
  <2>4. all.next \in Nat /\ all.pairs \in Nat
    BY <2>3 DEF Taking
  <2> DEFINE next == all.next
             pairs == all.pairs
  <2>5. /\ next \in {L + 1, L + 2} /\ next <= L + 1
        /\ pairs <= surplus /\ 2 * pairs <= next - 1
        /\ Len(all.grouped) = next - 1 - pairs
    BY <2>3 DEF CountsAdd
  <2> HIDE DEF next, pairs
  <2>6. next = L + 1 /\ next - 1 = L
    BY <1>1, <2>5
  <2>7. Lines(all.grouped) = Lines(criteria)
    BY <1>2, <2>3, <2>6 DEF SaysTheSame, LinesRun, next
  <2> QED
    BY <2>1, <2>3, <2>4, <2>5, <2>6, <2>7 DEF SaysTheSame, next, pairs
<1>4. CASE Fit
  <2>1. Grouped(criteria) = all.grouped
    BY <1>1, <1>4
  <2>2. Len(all.grouped) = MaxCriteria
    BY <1>1, <1>3, <1>4
  <2> QED
    BY <1>3, <1>4, <2>1, <2>2
<1>5. CASE ~Fit
  <2>1. Grouped(criteria) = criteria
    BY <1>1, <1>5
  <2>2. ASSUME L > MaxCriteria, CanBeGrouped(criteria), \A c \in ToSet(criteria) : c.length <= MaxLength
        PROVE  FALSE
    <3>1. \A i \in DOMAIN criteria : criteria[i].length <= MaxLength
      BY <2>2 DEF ToSet
    <3>2. PICK P \in Places(criteria) : Cardinality(P) = surplus
      BY <2>2 DEF CanBeGrouped, Places
    <3>3. P \intersect (1 .. all.next - 1) = P
      <4>1. P \subseteq 1 .. L - 1
        BY DEF Places
      <4>2. all.next - 1 = L
        BY <1>1, <1>3, <2>2
      <4>3. 1 .. L - 1 \subseteq 1 .. L
        BY <1>1
      <4> HIDE DEF L
      <4> QED
        BY <4>1, <4>2, <4>3
    <3>4. ~(all.pairs < surplus)
      <4> SUFFICES ASSUME all.pairs < surplus PROVE FALSE
        OBVIOUS
      <4>1. Cardinality(P \intersect (1 .. all.next - 1)) <= all.pairs
        BY <1>3, <2>2 DEF PairsAreMost
      <4>2. surplus <= all.pairs
        BY <3>2, <3>3, <4>1
      <4> QED
        BY <1>3, <2>2, <4>2
    <3>5. all.pairs = surplus
      BY <1>3, <2>2, <3>4
    <3>6. surplus <= L \div 2
      <4>1. surplus \in Nat /\ 2 * surplus <= L
        BY <1>3, <2>2, <3>5
      <4> HIDE DEF surplus, L
      <4> QED
        BY <1>1, <4>1
    <3> QED
      BY <1>5, <2>2, <3>1, <3>5, <3>6
  <2>3. \A c \in ToSet(criteria) : c.length <= MaxLength \/ c \in ToSet(criteria)
    OBVIOUS
  <2> QED
    BY <2>1, <2>2, <2>3
<1> QED
  BY <1>4, <1>5

LEMMA WiderSeq ==
  ASSUME NEW S, NEW T, S \subseteq T, NEW s \in Seq(S)
  PROVE  s \in Seq(T)
<1>1. Len(s) \in Nat /\ s \in [1 .. Len(s) -> T]
  OBVIOUS
<1> QED
  BY <1>1

\* The criteria of a draft are a list, with lines to put together.
LEMMA DraftCriteria ==
  ASSUME NEW v, IsDraft(v), NEW i \in DOMAIN v.tasks
  PROVE  /\ \E W : v.tasks[i].criteria \in Seq(Criterion(W))
         /\ PlanOf(v).tasks[i].criteria = Grouped(v.tasks[i].criteria)
<1> DEFINE t == v.tasks[i]
           s == t.criteria
           W == UNION {ToSet(c.lines) : c \in ToSet(s)}
<1>1. IsTask(t)
  BY DEF IsDraft, ToSet
<1>2. /\ t \in [id : {t.id}, dependencies : {t.dependencies}, criteria : Seq(ToSet(s))]
      /\ \A c \in ToSet(s) : IsCriterion(c)
  BY <1>1 DEF IsTask
<1>3. s \in Seq(ToSet(s))
  BY <1>2
<1>4. PlanOf(v).tasks[i].criteria = Grouped(s)
  <2>1. v \in [complete : BOOLEAN, bounded : BOOLEAN, tasks : Seq(ToSet(v.tasks))]
    BY DEF IsDraft
  <2>2. PlanOf(v).tasks[i] = GroupedTask(t)
    BY <2>1 DEF PlanOf
  <2>3. GroupedTask(t).criteria = Grouped(s)
    <3> HIDE DEF t
    <3> QED
      BY <1>2 DEF GroupedTask
  <2> QED
    BY <2>2, <2>3
<1> HIDE DEF s, t
<1>5. ToSet(s) \subseteq Criterion(W)
  <2> SUFFICES ASSUME NEW c \in ToSet(s) PROVE c \in Criterion(W)
    OBVIOUS
  <2>1. c \in [lines : Seq(ToSet(c.lines)), length : Nat]
    BY <1>2 DEF IsCriterion
  <2>2. ToSet(c.lines) \subseteq W /\ c.lines \in Seq(ToSet(c.lines))
    BY <2>1
  <2> HIDE DEF W
  <2>3. c.lines \in Seq(W)
    BY <2>2, WiderSeq
  <2> QED
    BY <2>1, <2>3 DEF Criterion
<1> HIDE DEF W
<1>6. s \in Seq(Criterion(W))
  BY <1>3, <1>5, WiderSeq
<1> QED
  BY <1>4, <1>6 DEF s, t

\* Of every answer: grouping has neither lost, repeated nor reordered a line of a
\* criterion, and it groups whenever some neighbours could be paired to keep the limit.
THEOREM GroupedCriteria == CriteriaKept
<1> SUFFICES ASSUME NEW a \in Answers, NEW v \in ToSet(a.values) \ NoPlan, NEW i \in DOMAIN v.tasks,
                    NEW criteria, criteria = v.tasks[i].criteria,
                    NEW grouped, grouped = PlanOf(v).tasks[i].criteria
             PROVE  /\ Lines(grouped) = Lines(criteria)
                    /\ \A c \in ToSet(grouped) : c.length <= MaxLength \/ c \in ToSet(criteria)
                    /\ /\ Len(criteria) > MaxCriteria /\ CanBeGrouped(criteria)
                       /\ \A c \in ToSet(criteria) : c.length <= MaxLength
                       => Len(grouped) = MaxCriteria
  BY DEF CriteriaKept
<1>1. IsDraft(v)
  BY DraftAssumption DEF ToSet
<1>2. grouped = Grouped(criteria) /\ \E W : criteria \in Seq(Criterion(W))
  BY <1>1, DraftCriteria
<1>3. PICK W : criteria \in Seq(Criterion(W))
  BY <1>2
<1> QED
  BY <1>2, <1>3, GroupedFacts

----------------------------------------------------------------------------
\* The inductive invariant.

\* What a plan can say: what a model answered, or what a client made of it.
Sayings == Contents \union Planned

\* A record is made with a workflow, and the plan object has a content.
RecordsAreWhole ==
  \A p \in Plans :
    /\ record[p].status = "none" <=> record[p] = Unregistered
    /\ record[p].status = "draft" => record[p] = Draft(record[p].workflow)
    /\ record[p].status # "none" => record[p].workflow \in Workflows /\ content[p] \in Sayings

\* The plan of a workflow is registered for it, there is none before one is offered, and
\* there is one wherever the code looks it up.
PlansAreHeld ==
  \A w \in Workflows :
    /\ planId[w] # Nothing => record[planId[w]].workflow = w
    /\ \/ status[w] \in {"awaiting_plan_approval", "approved", "running"}
       \/ w \in retryable \/ work[w] # Nothing
       => planId[w] \in Plans
    /\ status[w] \in {"created", "planning"} => planId[w] = Nothing

\* An approved plan stays the plan of its workflow, which can have no other any more,
\* and what was approved passed PlanValidator.
ApprovalsHold ==
  \A p \in Plans : record[p].status = "approved" =>
    /\ planId[record[p].workflow] = p
    /\ status[record[p].workflow] \notin {"created", "planning", "awaiting_plan_approval"}
    /\ record[p].approved \in Sayings /\ Valid(record[p].approved)

\* A task in flight was given the approved content.
WorkWasApproved ==
  \A w \in Workflows : work[w] # Nothing =>
    record[planId[w]].status = "approved" /\ record[planId[w]].approved = work[w]

\* One createPlan call at most has put its workflow into planning, and as long as it is in
\* flight the workflow does not get a plan.
OnePlanner ==
  \A c \in Calls : calls[c] # NoCall =>
    /\ calls[c].workflow \in Workflows
    /\ ~calls[c].replacing =>
         /\ status[calls[c].workflow] \in {"planning"} \union Stopped
         /\ planId[calls[c].workflow] = Nothing
         /\ \A d \in Calls : calls[d].workflow = calls[c].workflow /\ ~calls[d].replacing => d = c

Inv ==
  TypeOK /\ RecordsAreWhole /\ PlansAreHeld /\ ApprovalsHold /\ WorkWasApproved /\ OnePlanner

----------------------------------------------------------------------------
\* The steps.

\* What the table of transitions says of the statuses of this part.
LEMMA LegalFacts ==
  ASSUME NEW s \in Statuses
  PROVE  /\ Legal(s, "planning") => s = "created"
         /\ Legal(s, "awaiting_plan_approval") => s = "planning"
         /\ Legal(s, "failed") => s \notin Terminal
         /\ Legal(s, "aborted") => s \notin Terminal
BY DEF Legal, Transitions, Statuses, Terminal, Stopped, Interruptible

\* All that clients hold is said by a plan, and no name is one of another kind.
LEMMA Names ==
  /\ Nothing \notin Workflows /\ Nothing \notin Plans /\ Nothing \notin Contents
  /\ NoCall.workflow = Nothing /\ NoCall.replacing = FALSE
  /\ NoCall \in [workflow : Workflows \union {Nothing}, replacing : BOOLEAN]
BY ApprovalAssumption DEF NoCall

\* The first state.
LEMMA InitInv == Init => Inv
<1> SUFFICES ASSUME Init PROVE Inv
  OBVIOUS
<1>1. TypeOK
  BY Names DEF Init, TypeOK, Unregistered, PlanStatuses, Statuses
<1>2. RecordsAreWhole /\ PlansAreHeld /\ ApprovalsHold /\ WorkWasApproved
  BY DEF Init, RecordsAreWhole, PlansAreHeld, ApprovalsHold, WorkWasApproved, Unregistered
<1>3. OnePlanner
  BY DEF Init, OnePlanner
<1> QED
  BY <1>1, <1>2, <1>3 DEF Inv

\* createPlan changes calls, and the status only of a workflow that was just created.
LEMMA CreateStep ==
  ASSUME Inv, NEW c \in Calls, NEW w \in Workflows, CreatePlan(c, w)
  PROVE  Inv'
<1> USE DEF Inv
<1> DEFINE call == [workflow |-> w, replacing |-> status[w] = "awaiting_plan_approval"]
<1>1. /\ calls[c] = NoCall /\ calls' = [calls EXCEPT ![c] = call]
      /\ UNCHANGED <<planId, record, content, ruleSets, work, retryable>>
      /\ \/ call.replacing /\ UNCHANGED status
         \/ ~call.replacing /\ status[w] = "created" /\ status' = [status EXCEPT ![w] = "planning"]
  <2>1. status[w] \in Statuses
    BY DEF TypeOK
  <2> QED
    BY <2>1, LegalFacts DEF CreatePlan, plans, Enter
<1>2. TypeOK'
  <2>1. call \in [workflow : Workflows \union {Nothing}, replacing : BOOLEAN]
    OBVIOUS
  <2> QED
    BY <1>1, <2>1 DEF TypeOK, Statuses
<1>3. RecordsAreWhole' /\ WorkWasApproved'
  BY <1>1 DEF RecordsAreWhole, WorkWasApproved
<1>4. PlansAreHeld'
  BY <1>1 DEF PlansAreHeld, TypeOK
<1>5. ApprovalsHold'
  BY <1>1 DEF ApprovalsHold, RecordsAreWhole, TypeOK
<1>6. OnePlanner'
  <2> SUFFICES ASSUME NEW e \in Calls, calls'[e] # NoCall
               PROVE  /\ calls'[e].workflow \in Workflows
                      /\ ~calls'[e].replacing =>
                           /\ status'[calls'[e].workflow] \in {"planning"} \union Stopped
                           /\ planId'[calls'[e].workflow] = Nothing
                           /\ \A d \in Calls : calls'[d].workflow = calls'[e].workflow
                                                /\ ~calls'[d].replacing => d = e
    BY DEF OnePlanner
  <2>1. calls'[c] = call /\ \A d \in Calls \ {c} : calls'[d] = calls[d]
    BY <1>1 DEF TypeOK
  <2>2. \A d \in Calls : calls[d].workflow = w /\ ~calls[d].replacing =>
          status[w] \in {"planning"} \union Stopped
    BY Names DEF OnePlanner
  <2>3. \A v \in Workflows : v # w => status'[v] = status[v]
    BY <1>1 DEF TypeOK
  <2>4. ~call.replacing => status'[w] = "planning"
    BY <1>1 DEF TypeOK
  <2>5. CASE e = c
    BY <1>1, <2>1, <2>2, <2>4, <2>5 DEF PlansAreHeld, Stopped
  <2>6. CASE e # c
    BY <1>1, <2>1, <2>2, <2>3, <2>4, <2>6 DEF OnePlanner, Stopped
  <2> QED
    BY <2>5, <2>6
<1> QED
  BY <1>2, <1>3, <1>4, <1>5, <1>6

\* A step that ends a workflow, or none, disturbs nothing else.
LEMMA EndStep ==
  ASSUME Inv, NEW w \in Workflows, NEW s \in Stopped \union {"completed"},
         s = "completed" => status[w] = "running",
         status' \in {status, [status EXCEPT ![w] = s]},
         UNCHANGED <<planId, record, content, work>>
  PROVE  /\ status' \in [Workflows -> Statuses]
         /\ RecordsAreWhole' /\ ApprovalsHold' /\ WorkWasApproved'
         /\ retryable' = retryable => PlansAreHeld'
         /\ \A v \in Workflows :
              status[v] \in {"planning"} \union Stopped => status'[v] \in {"planning"} \union Stopped
<1> USE DEF Inv
<1>1. /\ status' \in [Workflows -> Statuses]
      /\ \A v \in Workflows : status'[v] \in {status[v], s} /\ (v # w => status'[v] = status[v])
  BY DEF TypeOK, Statuses, Stopped
<1>2. RecordsAreWhole' /\ WorkWasApproved'
  BY DEF RecordsAreWhole, WorkWasApproved
<1>3. ApprovalsHold'
  BY <1>1 DEF ApprovalsHold, RecordsAreWhole, Stopped
<1>4. retryable' = retryable => PlansAreHeld'
  BY <1>1 DEF PlansAreHeld, Stopped
<1>5. \A v \in Workflows : status[v] \in {"planning"} \union Stopped =>
        status'[v] \in {"planning"} \union Stopped
  BY <1>1 DEF Stopped
<1> QED
  BY <1>1, <1>2, <1>3, <1>4, <1>5

\* Calls that end leave the others as they were.
LEMMA CallsEnd ==
  ASSUME Inv, NEW c \in Calls, calls' \in {calls, [calls EXCEPT ![c] = NoCall]},
         \A d \in Calls : calls'[d] # NoCall /\ ~calls'[d].replacing =>
           /\ status'[calls'[d].workflow] \in {"planning"} \union Stopped
           /\ planId'[calls'[d].workflow] = Nothing
  PROVE  /\ calls' \in [Calls -> [workflow : Workflows \union {Nothing}, replacing : BOOLEAN]]
         /\ OnePlanner'
<1>1. /\ calls' \in [Calls -> [workflow : Workflows \union {Nothing}, replacing : BOOLEAN]]
      /\ \A d \in Calls : calls'[d] \in {calls[d], NoCall}
  BY Names DEF Inv, TypeOK
<1>2. OnePlanner'
  BY <1>1, Names DEF Inv, OnePlanner
<1> QED
  BY <1>1, <1>2

\* A new draft takes the place of the one on offer, or is the first one.
LEMMA RegisterStep ==
  ASSUME Inv, NEW w \in Workflows, NEW p \in Plans, CanRegister(p, w),
         NEW x \in Sayings, content' = [content EXCEPT ![p] = x],
         planId' = [planId EXCEPT ![w] = p], UNCHANGED <<work, retryable>>,
         \/ CanReplace(w) /\ p # planId[w] /\ record' = Replaced(w, p) /\ UNCHANGED status
         \/ /\ status[w] = "planning" /\ record' = [record EXCEPT ![p] = Draft(w)]
            /\ status' = [status EXCEPT ![w] = "awaiting_plan_approval"]
  PROVE  /\ status' \in [Workflows -> Statuses] /\ planId' \in [Workflows -> Plans \union {Nothing}]
         /\ record' \in [Plans -> [status : PlanStatuses, workflow : Workflows \union {Nothing},
                                   approved : Contents \union Planned \union {Nothing}]]
         /\ content' \in [Plans -> Contents \union Planned \union {Nothing}]
         /\ RecordsAreWhole' /\ PlansAreHeld' /\ ApprovalsHold' /\ WorkWasApproved'
<1> USE DEF Inv
<1>1. /\ status' \in [Workflows -> Statuses] /\ status'[w] = "awaiting_plan_approval"
      /\ \A v \in Workflows \ {w} : status'[v] = status[v]
  BY DEF TypeOK, Statuses, CanReplace
<1>2. planId' \in [Workflows -> Plans \union {Nothing}] /\ planId'[w] = p
      /\ \A v \in Workflows \ {w} : planId'[v] = planId[v]
  BY DEF TypeOK
<1> DEFINE Records == [status : PlanStatuses, workflow : Workflows \union {Nothing},
                       approved : Contents \union Planned \union {Nothing}]
           Rejected(q) == [status |-> "rejected", workflow |-> record[q].workflow,
                           approved |-> record[q].approved]
<1>3. record \in [Plans -> Records]
  BY DEF TypeOK
<1>4. /\ record' = [q \in Plans |-> record'[q]] /\ record'[p] = Draft(w)
      /\ \A q \in Plans \ {p} :
           record'[q] = record[q] \/ (q = planId[w] /\ CanReplace(w) /\ record'[q] = Rejected(q))
  <2>1. CASE record' = [record EXCEPT ![p] = Draft(w)]
    BY <1>3, <2>1
  <2>2. CASE CanReplace(w) /\ p # planId[w] /\ record' = Replaced(w, p)
    <3>1. planId[w] \in Plans
      BY <2>2 DEF CanReplace, PlansAreHeld
    <3>2. [record[planId[w]] EXCEPT !.status = "rejected"] = Rejected(planId[w])
      BY <1>3, <3>1
    <3> QED
      BY <1>3, <2>2, <3>1, <3>2 DEF Replaced
  <2> QED
    BY <2>1, <2>2
<1>5. /\ Draft(w) \in Records /\ Draft(w) # Unregistered
      /\ Draft(w).status = "draft" /\ Draft(w).workflow = w
  BY DEF Draft, Unregistered, PlanStatuses
<1>6. \A q \in Plans \ {p} :
        \/ record'[q] = record[q]
        \/ /\ q = planId[w] /\ CanReplace(w) /\ record'[q] \in Records
           /\ record'[q].status = "rejected" /\ record'[q].workflow = record[q].workflow
  BY <1>3, <1>4 DEF PlanStatuses
<1>7. record' \in [Plans -> Records]
  BY <1>3, <1>4, <1>5, <1>6
<1>8. /\ content' \in [Plans -> Contents \union Planned \union {Nothing}]
      /\ content'[p] \in Sayings /\ \A q \in Plans \ {p} : content'[q] = content[q]
  BY DEF TypeOK, Sayings
<1>9. CanReplace(w) => planId[w] \in Plans /\ record[planId[w]].workflow = w
  BY Names DEF CanReplace, PlansAreHeld
<1> HIDE DEF Records, Rejected
<1>10. RecordsAreWhole'
  <2> SUFFICES ASSUME NEW q \in Plans
               PROVE  /\ record'[q].status = "none" <=> record'[q] = Unregistered
                      /\ record'[q].status = "draft" => record'[q] = Draft(record'[q].workflow)
                      /\ record'[q].status # "none" =>
                           record'[q].workflow \in Workflows /\ content'[q] \in Sayings
    BY DEF RecordsAreWhole, Unregistered, Draft
  <2>1. CASE q = p
    BY <1>4, <1>5, <1>8, <2>1 DEF Unregistered
  <2>2. CASE q # p /\ record'[q] = record[q]
    BY <1>8, <2>2 DEF RecordsAreWhole
  <2>3. CASE q # p /\ record'[q] # record[q]
    BY <1>6, <1>8, <1>9, <2>3 DEF RecordsAreWhole, CanReplace, Unregistered
  <2> QED
    BY <2>1, <2>2, <2>3
<1>11. \A v \in Workflows \ {w} : planId[v] # Nothing =>
          planId[v] # p /\ record'[planId[v]].workflow = v
  <2> SUFFICES ASSUME NEW v \in Workflows \ {w}, planId[v] # Nothing
               PROVE  planId[v] # p /\ record'[planId[v]].workflow = v
    OBVIOUS
  <2>1. planId[v] \in Plans /\ record[planId[v]].workflow = v
    BY DEF TypeOK, PlansAreHeld
  <2>2. record[p].workflow # v
    BY <1>5, Names DEF CanRegister, Unregistered
  <2> QED
    BY <1>6, <2>1, <2>2
<1>12. PlansAreHeld'
  BY <1>1, <1>2, <1>4, <1>5, <1>11, Names DEF PlansAreHeld
<1>13. ApprovalsHold'
  BY <1>1, <1>2, <1>4, <1>5, <1>6 DEF ApprovalsHold, RecordsAreWhole, CanReplace
<1>14. WorkWasApproved'
  <2> SUFFICES ASSUME NEW v \in Workflows, work[v] # Nothing
               PROVE  record'[planId'[v]].status = "approved" /\ record'[planId'[v]].approved = work[v]
    BY DEF WorkWasApproved
  <2>1. /\ planId[v] \in Plans /\ record[planId[v]].workflow = v
        /\ record[planId[v]].status = "approved" /\ record[planId[v]].approved = work[v]
    BY Names DEF PlansAreHeld, WorkWasApproved
  <2>2. v # w
    BY <1>1, <2>1 DEF ApprovalsHold, CanReplace
  <2>3. CanReplace(w) => planId[v] # planId[w]
    BY <1>9, <2>1, <2>2
  <2> QED
    BY <1>2, <1>6, <1>11, <2>1, <2>2, <2>3, Names
<1> QED
  BY <1>1, <1>2, <1>7, <1>8, <1>10, <1>12, <1>13, <1>14 DEF Records

\* The workflow of a call that puts it into planning, and what the call's failure does.
LEMMA CallFacts ==
  ASSUME Inv, NEW c \in Calls, calls[c] # NoCall
  PROVE  /\ calls[c].workflow \in Workflows
         /\ PlanningFails(calls[c]) =>
              \/ UNCHANGED status
              \/ ~calls[c].replacing /\ status' = [status EXCEPT ![calls[c].workflow] = "failed"]
BY DEF Inv, OnePlanner, PlanningFails, FailTracked, Enter

\* A step in which a call ends with an error.
LEMMA FailStep ==
  ASSUME Inv, NEW c \in Calls, calls[c] # NoCall, calls' = [calls EXCEPT ![c] = NoCall],
         PlanningFails(calls[c]), ruleSets' \subseteq Plans,
         UNCHANGED <<planId, record, content, work, retryable>>
  PROVE  Inv'
<1> DEFINE w == calls[c].workflow
<1>1. w \in Workflows /\ status' \in {status, [status EXCEPT ![w] = "failed"]}
  BY CallFacts
<1>2. /\ status' \in [Workflows -> Statuses]
      /\ RecordsAreWhole' /\ ApprovalsHold' /\ WorkWasApproved' /\ PlansAreHeld'
      /\ \A v \in Workflows :
           status[v] \in {"planning"} \union Stopped => status'[v] \in {"planning"} \union Stopped
  BY <1>1, EndStep DEF Stopped
<1>3. \A d \in Calls : calls'[d] # NoCall => calls'[d] = calls[d]
  BY DEF Inv, TypeOK
<1>4. \A d \in Calls : calls'[d] # NoCall /\ ~calls'[d].replacing =>
        /\ status'[calls'[d].workflow] \in {"planning"} \union Stopped
        /\ planId'[calls'[d].workflow] = Nothing
  BY <1>2, <1>3 DEF Inv, OnePlanner
<1>5. /\ calls' \in [Calls -> [workflow : Workflows \union {Nothing}, replacing : BOOLEAN]]
      /\ OnePlanner'
  BY <1>4, CallsEnd
<1>6. TypeOK'
  BY <1>2, <1>5 DEF Inv, TypeOK
<1> QED
  BY <1>2, <1>5, <1>6 DEF Inv

\* The Planner returns: the plan is registered and offered, or the call fails, perhaps
\* after the plan was registered for a workflow that is over.
LEMMA ReturnStep ==
  ASSUME Inv, NEW c \in Calls, NEW p \in Plans, PlannerReturns(c, p)
  PROVE  Inv'
<1> DEFINE w == calls[c].workflow
           IsFull == Cardinality(ruleSets) >= MaxRuleSets
<1>1. /\ calls[c] # NoCall /\ calls' = [calls EXCEPT ![c] = NoCall]
      /\ record[p] = Unregistered /\ UNCHANGED <<work, retryable>>
  BY DEF PlannerReturns
<1>2. /\ w \in Workflows
      /\ \A d \in Calls : d # c => calls'[d] = calls[d]
      /\ calls'[c] = NoCall
  BY <1>1, CallFacts DEF Inv, TypeOK
<1>3. CanRegister(p, w)
  BY <1>1 DEF CanRegister
<1>4. CASE IsFull \/ (calls[c].replacing /\ ~CanReplace(w))
  <2>1. ruleSets' \subseteq Plans
    BY <1>4 DEF PlannerReturns, Inv, TypeOK
  <2>2. PlanningFails(calls[c]) /\ UNCHANGED <<planId, record, content>>
    BY <1>4 DEF PlannerReturns, plans
  <2> QED
    BY <1>1, <2>1, <2>2, FailStep
<1>5. CASE ~IsFull /\ (calls[c].replacing => CanReplace(w))
  <2>1. ruleSets' = ruleSets \union {p} /\ ruleSets' \subseteq Plans
    BY <1>5 DEF PlannerReturns, Inv, TypeOK
  <2>2. PICK x \in Sayings : content' = [content EXCEPT ![p] = x]
    BY <1>5 DEF PlannerReturns, Filled, Sayings
  <2>3. CASE calls[c].replacing \/ Legal(status[w], "awaiting_plan_approval")
    <3>1. \/ /\ calls[c].replacing /\ CanReplace(w) /\ record' = Replaced(w, p)
             /\ UNCHANGED status
          \/ /\ ~calls[c].replacing /\ status[w] = "planning"
             /\ record' = [record EXCEPT ![p] = Draft(w)]
             /\ status' = [status EXCEPT ![w] = "awaiting_plan_approval"]
      BY <1>2, <1>5, <2>3, LegalFacts DEF PlannerReturns, Enter, Inv, TypeOK
    <3>2. planId' = [planId EXCEPT ![w] = p]
      BY <1>5, <2>3 DEF PlannerReturns
    <3>3. CanReplace(w) => p # planId[w]
      BY <1>1 DEF CanReplace, Unregistered
    <3>4. /\ status' \in [Workflows -> Statuses] /\ planId' \in [Workflows -> Plans \union {Nothing}]
          /\ record' \in [Plans -> [status : PlanStatuses, workflow : Workflows \union {Nothing},
                                    approved : Contents \union Planned \union {Nothing}]]
          /\ content' \in [Plans -> Contents \union Planned \union {Nothing}]
          /\ RecordsAreWhole' /\ PlansAreHeld' /\ ApprovalsHold' /\ WorkWasApproved'
      BY <1>1, <1>2, <1>3, <2>2, <3>1, <3>2, <3>3, RegisterStep
    <3>5. \A d \in Calls : calls'[d] # NoCall /\ ~calls'[d].replacing =>
            /\ status'[calls'[d].workflow] \in {"planning"} \union Stopped
            /\ planId'[calls'[d].workflow] = Nothing
      <4> SUFFICES ASSUME NEW d \in Calls, calls'[d] # NoCall, ~calls'[d].replacing
                   PROVE  /\ status'[calls'[d].workflow] \in {"planning"} \union Stopped
                          /\ planId'[calls'[d].workflow] = Nothing
        OBVIOUS
      <4>1. /\ calls'[d] = calls[d] /\ d # c /\ calls[d].workflow \in Workflows
            /\ status[calls[d].workflow] \in {"planning"} \union Stopped
            /\ planId[calls[d].workflow] = Nothing
        BY <1>2 DEF Inv, OnePlanner
      <4>2. calls[d].workflow # w
        BY <1>1, <3>1, <4>1 DEF Inv, OnePlanner, CanReplace, Stopped
      <4> QED
        BY <1>2, <3>1, <3>2, <4>1, <4>2 DEF Inv, TypeOK
    <3>6. /\ calls' \in [Calls -> [workflow : Workflows \union {Nothing}, replacing : BOOLEAN]]
          /\ OnePlanner'
      BY <1>1, <3>5, CallsEnd
    <3>7. TypeOK'
      BY <1>1, <2>1, <3>4, <3>6 DEF Inv, TypeOK
    <3> QED
      BY <3>4, <3>6, <3>7 DEF Inv
  <2>4. CASE ~calls[c].replacing /\ ~Legal(status[w], "awaiting_plan_approval")
    <3>1. /\ record' = [record EXCEPT ![p] = Draft(w)] /\ PlanningFails(calls[c])
          /\ UNCHANGED planId
      BY <1>5, <2>4 DEF PlannerReturns
    <3>2. status' \in {status, [status EXCEPT ![w] = "failed"]}
      BY <1>1, <3>1, CallFacts
    <3> DEFINE Records == [status : PlanStatuses, workflow : Workflows \union {Nothing},
                           approved : Contents \union Planned \union {Nothing}]
    <3>3. /\ Draft(w) \in Records /\ Draft(w).status = "draft" /\ Draft(w).workflow = w
          /\ Unregistered.workflow = Nothing /\ Unregistered.status = "none"
          /\ Draft(w) # Unregistered
      BY <1>2 DEF Draft, Unregistered, PlanStatuses
    <3>4. /\ record' \in [Plans -> Records] /\ record'[p] = Draft(w)
          /\ \A q \in Plans \ {p} : record'[q] = record[q]
      BY <3>1, <3>3 DEF Inv, TypeOK
    <3>5. /\ content' \in [Plans -> Contents \union Planned \union {Nothing}]
          /\ content'[p] \in Sayings /\ \A q \in Plans \ {p} : content'[q] = content[q]
      BY <2>2 DEF Inv, TypeOK, Sayings
    <3>6. \A v \in Workflows : planId[v] # p
      BY <1>1, <3>3, Names DEF Inv, PlansAreHeld
    <3>7. /\ status' \in [Workflows -> Statuses]
          /\ \A v \in Workflows : status'[v] # status[v] =>
               status'[v] = "failed"
      BY <1>2, <3>2 DEF Inv, TypeOK, Statuses
    <3> HIDE DEF Records
    <3>8. RecordsAreWhole'
      BY <3>3, <3>4, <3>5, <1>2 DEF Inv, RecordsAreWhole
    <3>9. PlansAreHeld'
      BY <1>1, <3>1, <3>4, <3>6, <3>7 DEF Inv, PlansAreHeld, TypeOK
    <3>10. ApprovalsHold'
      BY <3>1, <3>3, <3>4, <3>7 DEF Inv, ApprovalsHold, RecordsAreWhole
    <3>11. WorkWasApproved'
      BY <1>1, <3>1, <3>4, <3>6 DEF Inv, WorkWasApproved, PlansAreHeld
    <3>12. \A d \in Calls : calls'[d] # NoCall /\ ~calls'[d].replacing =>
             /\ status'[calls'[d].workflow] \in {"planning"} \union Stopped
             /\ planId'[calls'[d].workflow] = Nothing
      BY <1>2, <3>1, <3>7 DEF Inv, OnePlanner, Stopped
    <3>13. /\ calls' \in [Calls -> [workflow : Workflows \union {Nothing}, replacing : BOOLEAN]]
           /\ OnePlanner'
      BY <1>1, <3>12, CallsEnd
    <3>14. TypeOK'
      BY <1>1, <2>1, <3>1, <3>4, <3>5, <3>7, <3>13 DEF Inv, TypeOK, Records
    <3> QED
      BY <3>8, <3>9, <3>10, <3>11, <3>13, <3>14 DEF Inv
  <2> QED
    BY <2>3, <2>4
<1> QED
  BY <1>4, <1>5

\* A draft of the user's is decided on: the one record changes, and the status with it.
LEMMA DecisionStep ==
  ASSUME Inv, NEW w \in Workflows, NEW p \in Plans,
         status[w] = "awaiting_plan_approval", record[p].status = "draft",
         record[p].workflow = w, planId[w] = p,
         NEW r \in [status : PlanStatuses, workflow : Workflows \union {Nothing},
                    approved : Contents \union Planned \union {Nothing}],
         NEW s \in {"approved", "failed", "awaiting_plan_approval"},
         r.workflow = w,
         \/ r.status = "rejected"
         \/ /\ r.status = "approved" /\ s = "approved"
            /\ r.approved \in Sayings /\ Valid(r.approved),
         record' = [record EXCEPT ![p] = r], status' = [status EXCEPT ![w] = s],
         UNCHANGED <<planId, content, ruleSets, calls, work, retryable>>
  PROVE  Inv'
<1> USE DEF Inv
<1>1. status' \in [Workflows -> Statuses] /\ status'[w] = s
      /\ \A v \in Workflows \ {w} : status'[v] = status[v]
  BY DEF TypeOK, Statuses
<1>2. record'[p] = r /\ \A q \in Plans \ {p} : record'[q] = record[q]
  BY DEF TypeOK
<1>3. TypeOK'
  BY <1>1 DEF TypeOK
<1>4. RecordsAreWhole'
  BY <1>2 DEF RecordsAreWhole, Unregistered
<1>5. PlansAreHeld'
  BY <1>1, <1>2, Names DEF PlansAreHeld, TypeOK
<1>6. ApprovalsHold'
  BY <1>1, <1>2 DEF ApprovalsHold, RecordsAreWhole
<1>7. WorkWasApproved'
  BY <1>2, Names DEF WorkWasApproved, PlansAreHeld
<1>8. OnePlanner'
  BY <1>1 DEF OnePlanner, Stopped
<1> QED
  BY <1>3, <1>4, <1>5, <1>6, <1>7, <1>8

\* A record whose status alone changes.
LEMMA StatusOfRecord ==
  ASSUME Inv, NEW p \in Plans
  PROVE  LET r == [record[p] EXCEPT !.status = "rejected"]
         IN /\ r \in [status : PlanStatuses, workflow : Workflows \union {Nothing},
                      approved : Contents \union Planned \union {Nothing}]
            /\ r.status = "rejected" /\ r.workflow = record[p].workflow
BY DEF Inv, TypeOK, PlanStatuses

\* A client replaces the draft, or loses it.
LEMMA ReplaceStep ==
  ASSUME Inv, NEW w \in Workflows, NEW p \in Plans, NEW x \in Contents, ReplaceDraft(w, p, x)
  PROVE  Inv'
<1>1. CanReplace(w) /\ UNCHANGED <<status, ruleSets, calls, work, retryable>>
  BY DEF ReplaceDraft
<1>2. status[w] = "awaiting_plan_approval" /\ planId[w] \in Plans
      /\ record[planId[w]].status = "draft" /\ record[planId[w]].workflow = w
  BY <1>1, Names DEF CanReplace, Inv, PlansAreHeld
<1>3. CASE p # planId[w] /\ CanRegister(p, w) /\ Valid(x)
  <2>1. record' = Replaced(w, p) /\ planId' = [planId EXCEPT ![w] = p]
        /\ content' = [content EXCEPT ![p] = x] /\ x \in Sayings
    BY <1>3 DEF ReplaceDraft, Sayings
  <2>2. /\ status' \in [Workflows -> Statuses] /\ planId' \in [Workflows -> Plans \union {Nothing}]
        /\ record' \in [Plans -> [status : PlanStatuses, workflow : Workflows \union {Nothing},
                                  approved : Contents \union Planned \union {Nothing}]]
        /\ content' \in [Plans -> Contents \union Planned \union {Nothing}]
        /\ RecordsAreWhole' /\ PlansAreHeld' /\ ApprovalsHold' /\ WorkWasApproved'
    BY <1>1, <1>3, <2>1, RegisterStep
  <2>3. \A c \in Calls : calls[c] # NoCall /\ ~calls[c].replacing => calls[c].workflow # w
    BY <1>2, Names DEF Inv, OnePlanner
  <2>4. OnePlanner' /\ TypeOK'
    BY <1>1, <2>1, <2>2, <2>3 DEF Inv, OnePlanner, TypeOK
  <2> QED
    BY <2>2, <2>4 DEF Inv
<1>4. CASE ~(p # planId[w] /\ CanRegister(p, w) /\ Valid(x))
  <2> DEFINE r == [record[planId[w]] EXCEPT !.status = "rejected"]
  <2>1. record' = [record EXCEPT ![planId[w]] = r] /\ UNCHANGED <<planId, content>>
    BY <1>4 DEF ReplaceDraft
  <2>2. status' = [status EXCEPT ![w] = "awaiting_plan_approval"]
    BY <1>1, <1>2 DEF Inv, TypeOK
  <2>3. /\ r \in [status : PlanStatuses, workflow : Workflows \union {Nothing},
                  approved : Contents \union Planned \union {Nothing}]
        /\ r.status = "rejected" /\ r.workflow = w
    BY <1>2, StatusOfRecord
  <2> HIDE DEF r
  <2> QED
    BY <1>1, <1>2, <2>1, <2>2, <2>3, DecisionStep
<1> QED
  BY <1>3, <1>4

\* The user approves: what is approved has passed PlanValidator.
LEMMA ApproveStep ==
  ASSUME Inv, NEW w \in Workflows, NEW p \in Plans, ApprovePlan(w, p)
  PROVE  Inv'
<1> DEFINE r == [record[p] EXCEPT !.status = "approved", !.approved = content[p]]
<1>1. /\ status[w] = "awaiting_plan_approval" /\ record[p].status = "draft" /\ Valid(content[p])
      /\ record[p].workflow = w /\ planId[w] = p
      /\ status' = [status EXCEPT ![w] = "approved"]
      /\ UNCHANGED <<planId, content, ruleSets, calls, work, retryable>>
  BY DEF ApprovePlan, Enter
<1>2. record[p] \in [status : PlanStatuses, workflow : Workflows \union {Nothing},
                     approved : Contents \union Planned \union {Nothing}]
  BY DEF Inv, TypeOK
<1>3. content[p] \in Sayings
  BY <1>1 DEF Inv, RecordsAreWhole
<1>4. /\ r \in [status : PlanStatuses, workflow : Workflows \union {Nothing},
                approved : Contents \union Planned \union {Nothing}]
      /\ r.status = "approved" /\ r.workflow = w /\ r.approved = content[p]
  BY <1>1, <1>2, <1>3 DEF PlanStatuses, Sayings
<1>5. record' = [record EXCEPT ![p] = r]
  BY <1>2 DEF ApprovePlan, Inv, TypeOK
<1> HIDE DEF r
<1> QED
  BY <1>1, <1>3, <1>4, <1>5, DecisionStep

\* The user rejects.
LEMMA RejectStep ==
  ASSUME Inv, NEW w \in Workflows, NEW p \in Plans, RejectPlan(w, p)
  PROVE  Inv'
<1> DEFINE r == [record[p] EXCEPT !.status = "rejected"]
<1>1. /\ status[w] = "awaiting_plan_approval" /\ record[p].status = "draft"
      /\ record[p].workflow = w /\ planId[w] = p
      /\ status' = [status EXCEPT ![w] = "failed"] /\ record' = [record EXCEPT ![p] = r]
      /\ UNCHANGED <<planId, content, ruleSets, calls, work, retryable>>
  BY DEF RejectPlan, RejectedRecord, Enter
<1>2. /\ r \in [status : PlanStatuses, workflow : Workflows \union {Nothing},
                approved : Contents \union Planned \union {Nothing}]
      /\ r.status = "rejected" /\ r.workflow = w
  BY <1>1, StatusOfRecord
<1> HIDE DEF r
<1> QED
  BY <1>1, <1>2, DecisionStep

\* A client edits a plan object: no record holds it, only a copy of what was approved.
LEMMA EditStep ==
  ASSUME Inv, NEW p \in Plans, Edit(p)
  PROVE  Inv'
<1> USE DEF Inv
<1>1. PICK x \in Contents : content' = [content EXCEPT ![p] = x]
  BY DEF Edit
<1>2. UNCHANGED <<status, planId, record, ruleSets, calls, work, retryable>>
  BY DEF Edit, flow
<1>3. TypeOK'
  BY <1>1, <1>2 DEF TypeOK
<1>4. RecordsAreWhole'
  BY <1>1, <1>2 DEF RecordsAreWhole, TypeOK, Sayings
<1>5. PlansAreHeld' /\ ApprovalsHold' /\ WorkWasApproved' /\ OnePlanner'
  BY <1>2 DEF PlansAreHeld, ApprovalsHold, WorkWasApproved, OnePlanner
<1> QED
  BY <1>3, <1>4, <1>5

\* The run starts, or starts again after a failure: its workflow has a plan.
LEMMA RunStep ==
  ASSUME Inv, NEW w \in Workflows, status[w] = "approved" \/ (status[w] = "failed" /\ w \in retryable),
         Executable(planId[w]), status' = [status EXCEPT ![w] = "running"],
         retryable' \subseteq retryable,
         UNCHANGED <<planId, record, content, ruleSets, calls, work>>
  PROVE  Inv'
<1> USE DEF Inv
<1>1. status' \in [Workflows -> Statuses] /\ status'[w] = "running"
      /\ \A v \in Workflows \ {w} : status'[v] = status[v]
  BY DEF TypeOK, Statuses
<1>2. planId[w] \in Plans /\ record[planId[w]].status = "approved" /\ record[planId[w]].workflow = w
  BY Names DEF PlansAreHeld, Executable
<1>3. TypeOK'
  BY <1>1 DEF TypeOK
<1>4. RecordsAreWhole' /\ WorkWasApproved'
  BY DEF RecordsAreWhole, WorkWasApproved
<1>5. PlansAreHeld'
  BY <1>1, <1>2 DEF PlansAreHeld
<1>6. ApprovalsHold'
  BY <1>1 DEF ApprovalsHold, RecordsAreWhole
<1>7. OnePlanner'
  <2>1. \A c \in Calls : calls[c] # NoCall /\ ~calls[c].replacing => calls[c].workflow # w
    BY <1>2, Names DEF OnePlanner
  <2> QED
    BY <1>1, <2>1 DEF OnePlanner
<1> QED
  BY <1>3, <1>4, <1>5, <1>6, <1>7

\* A task starts with the content that is compared with what was approved, or fails.
LEMMA StartStep ==
  ASSUME Inv, NEW w \in Workflows, StartTask(w)
  PROVE  Inv'
<1>1. /\ status[w] \in {"approved", "running"} /\ work[w] = Nothing
      /\ UNCHANGED <<planId, record, content, ruleSets, calls, retryable>>
  BY DEF StartTask, plans
<1>2. planId[w] \in Plans
  BY <1>1 DEF Inv, PlansAreHeld
<1>3. CASE Executable(planId[w])
  <2>1. work' = [work EXCEPT ![w] = content[planId[w]]] /\ UNCHANGED status
    BY <1>3 DEF StartTask
  <2>2. /\ TypeOK'
        /\ work'[w] = content[planId[w]] /\ \A v \in Workflows \ {w} : work'[v] = work[v]
    BY <1>1, <1>2, <2>1 DEF Inv, TypeOK
  <2>3. RecordsAreWhole' /\ ApprovalsHold' /\ OnePlanner'
    BY <1>1, <2>1 DEF Inv, RecordsAreWhole, ApprovalsHold, OnePlanner
  <2>4. PlansAreHeld' /\ WorkWasApproved'
    BY <1>1, <1>2, <1>3, <2>1, <2>2 DEF Inv, PlansAreHeld, WorkWasApproved, Executable
  <2> QED
    BY <2>2, <2>3, <2>4 DEF Inv
<1>4. CASE ~Executable(planId[w])
  <2>1. status' \in {status, [status EXCEPT ![w] = "failed"]} /\ UNCHANGED work
    BY <1>4 DEF StartTask, Enter
  <2>2. /\ status' \in [Workflows -> Statuses]
        /\ RecordsAreWhole' /\ ApprovalsHold' /\ WorkWasApproved' /\ PlansAreHeld'
        /\ \A v \in Workflows :
             status[v] \in {"planning"} \union Stopped => status'[v] \in {"planning"} \union Stopped
    BY <1>1, <2>1, EndStep DEF Stopped
  <2>3. OnePlanner' /\ TypeOK'
    BY <1>1, <2>1, <2>2 DEF Inv, OnePlanner, TypeOK
  <2> QED
    BY <2>2, <2>3 DEF Inv
<1> QED
  BY <1>3, <1>4

\* A task ends, perhaps with the run.
LEMMA EndTaskStep ==
  ASSUME Inv, NEW w \in Workflows, EndTask(w)
  PROVE  Inv'
<1>1. /\ work[w] # Nothing /\ work' = [work EXCEPT ![w] = Nothing]
      /\ UNCHANGED <<planId, record, content, ruleSets, calls>>
  BY DEF EndTask, plans
<1>2. PICK s \in {"completed", "failed"} :
        \/ UNCHANGED status
        \/ status[w] = "running" /\ status' = [status EXCEPT ![w] = s]
  BY DEF EndTask, Enter
<1>3. retryable' \in {retryable, retryable \union {w}}
  BY DEF EndTask
<1>4. /\ status' \in [Workflows -> Statuses]
      /\ \A v \in Workflows : status'[v] = status[v] \/ (v = w /\ status[w] = "running" /\ status'[w] = s)
  BY <1>2 DEF Inv, TypeOK, Statuses
<1>5. \A v \in Workflows : work'[v] \in {work[v], Nothing}
  BY <1>1 DEF Inv, TypeOK
<1>6. planId[w] \in Plans
  BY <1>1 DEF Inv, PlansAreHeld
<1>7. TypeOK'
  BY <1>1, <1>3, <1>4 DEF Inv, TypeOK
<1>8. RecordsAreWhole' /\ WorkWasApproved'
  BY <1>1, <1>5 DEF Inv, RecordsAreWhole, WorkWasApproved
<1>9. PlansAreHeld'
  BY <1>1, <1>3, <1>4, <1>5, <1>6 DEF Inv, PlansAreHeld
<1>10. ApprovalsHold'
  BY <1>1, <1>4 DEF Inv, ApprovalsHold, RecordsAreWhole
<1>11. OnePlanner'
  BY <1>1, <1>4 DEF Inv, OnePlanner, Stopped
<1> QED
  BY <1>7, <1>8, <1>9, <1>10, <1>11 DEF Inv

\* The user aborts.
LEMMA AbortStep ==
  ASSUME Inv, NEW w \in Workflows, AbortWorkflow(w)
  PROVE  Inv'
<1>1. /\ status' = [status EXCEPT ![w] = "aborted"]
      /\ UNCHANGED <<planId, record, content, ruleSets, calls, work, retryable>>
  BY DEF AbortWorkflow, Enter, plans
<1>2. /\ status' \in [Workflows -> Statuses]
      /\ RecordsAreWhole' /\ ApprovalsHold' /\ WorkWasApproved' /\ PlansAreHeld'
      /\ \A v \in Workflows :
           status[v] \in {"planning"} \union Stopped => status'[v] \in {"planning"} \union Stopped
  BY <1>1, EndStep DEF Stopped
<1>3. OnePlanner' /\ TypeOK'
  BY <1>1, <1>2 DEF Inv, OnePlanner, TypeOK
<1> QED
  BY <1>2, <1>3 DEF Inv

----------------------------------------------------------------------------
\* The theorems.

\* The invariant holds of every run: records, approvals and calls fit together whatever
\* clients do to plan objects, and in whichever order requests are answered.
THEOREM ApprovalInvariance == Spec => []Inv
<1>1. Inv /\ [Next]_vars => Inv'
  <2> SUFFICES ASSUME Inv, [Next]_vars PROVE Inv'
    OBVIOUS
  <2>1. ASSUME NEW c \in Calls, NEW w \in Workflows, CreatePlan(c, w) PROVE Inv'
    BY <2>1, CreateStep
  <2>2. ASSUME NEW w \in Workflows, NEW p \in Plans, NEW x \in Contents, ReplaceDraft(w, p, x)
        PROVE  Inv'
    BY <2>2, ReplaceStep
  <2>3. ASSUME NEW w \in Workflows, NEW p \in Plans, ApprovePlan(w, p) PROVE Inv'
    BY <2>3, ApproveStep
  <2>4. ASSUME NEW w \in Workflows, NEW p \in Plans, RejectPlan(w, p) PROVE Inv'
    BY <2>4, RejectStep
  <2>5. ASSUME NEW w \in Workflows, NEW p \in Plans, Run(w, p) PROVE Inv'
    <3>1. /\ status[w] = "approved" /\ Executable(planId[w])
          /\ status' = [status EXCEPT ![w] = "running"]
          /\ UNCHANGED <<planId, record, content, ruleSets, calls, work, retryable>>
      BY <2>5 DEF Run, Enter, plans
    <3> QED
      BY <3>1, RunStep
  <2>6. ASSUME NEW w \in Workflows, Retry(w) PROVE Inv'
    <3>1. /\ status[w] = "failed" /\ w \in retryable /\ Executable(planId[w])
          /\ status' = [status EXCEPT ![w] = "running"] /\ retryable' \subseteq retryable
          /\ UNCHANGED <<planId, record, content, ruleSets, calls, work>>
      BY <2>6 DEF Retry, Enter, plans
    <3> QED
      BY <3>1, RunStep
  <2>7. ASSUME NEW w \in Workflows, StartTask(w) PROVE Inv'
    BY <2>7, StartStep
  <2>8. ASSUME NEW w \in Workflows, EndTask(w) PROVE Inv'
    BY <2>8, EndTaskStep
  <2>9. ASSUME NEW w \in Workflows, AbortWorkflow(w) PROVE Inv'
    BY <2>9, AbortStep
  <2>10. ASSUME NEW c \in Calls, PlannerThrows(c) PROVE Inv'
    <3>1. /\ calls[c] # NoCall /\ calls' = [calls EXCEPT ![c] = NoCall] /\ PlanningFails(calls[c])
          /\ UNCHANGED <<planId, record, content, ruleSets, work, retryable>>
      BY <2>10 DEF PlannerThrows, plans
    <3>2. ruleSets' \subseteq Plans
      BY <3>1 DEF Inv, TypeOK
    <3> QED
      BY <3>1, <3>2, FailStep
  <2>11. ASSUME NEW c \in Calls, NEW p \in Plans, PlannerReturns(c, p) PROVE Inv'
    BY <2>11, ReturnStep
  <2>12. ASSUME NEW p \in Plans, Edit(p) PROVE Inv'
    BY <2>12, EditStep
  <2>13. CASE UNCHANGED vars
    <3>1. UNCHANGED <<status, planId, record, content, ruleSets, calls, work, retryable>>
      BY <2>13 DEF vars, flow, plans
    <3> QED
      BY <3>1 DEF Inv, TypeOK, RecordsAreWhole, PlansAreHeld, ApprovalsHold, WorkWasApproved,
         OnePlanner
  <2> QED
    BY <2>1, <2>2, <2>3, <2>4, <2>5, <2>6, <2>7, <2>8, <2>9, <2>10, <2>11, <2>12, <2>13 DEF Next
<1> QED
  BY InitInv, <1>1, PTL DEF Spec

\* The variables keep their types.
THEOREM TypeCorrect == Spec => []TypeOK
BY ApprovalInvariance, PTL DEF Inv

\* Whatever answer a request in flight gets, a plan made of it says what the model answered.
THEOREM AnswersStayKept == Spec => []AnswersAreKept
<1>1. AnswersAreKept
  BY AcceptedPlans, GroupedCriteria DEF AnswersAreKept, AnswersKept
<1> QED
  BY <1>1, PTL

\* What a plan says is a list of tasks, so that a valid one can be carried out.
LEMMA SayingsCanBeCarriedOut ==
  ASSUME NEW x \in Sayings, Valid(x)
  PROVE  CanBeCarriedOut(x)
<1>1. IsList(x.tasks)
  <2>1. CASE x \in Contents
    BY <2>1, ApprovalAssumption DEF IsDraft, IsList
  <2>2. CASE x \in Planned
    <3>1. PICK a \in Given : Accepted(a) /\ x = PlanOf(Parsed(a))
      BY <2>2 DEF Planned
    <3> QED
      BY <3>1, AcceptedFacts, ApprovalAssumption
  <2> QED
    BY <2>1, <2>2 DEF Sayings
<1> QED
  BY <1>1, ListFacts, ValidPlansCanBeCarriedOut

\* A task in flight works on what the user approved for its workflow, whatever has become
\* of the plan object, and what was approved can be carried out.
THEOREM WorkStaysApproved == Spec => []WorkIsApproved
<1>1. Inv => WorkIsApproved
  <2> SUFFICES ASSUME Inv, NEW w \in Workflows, work[w] # Nothing
               PROVE  /\ planId[w] # Nothing /\ record[planId[w]].workflow = w
                      /\ record[planId[w]].status = "approved" /\ record[planId[w]].approved = work[w]
                      /\ CanBeCarriedOut(work[w])
    BY DEF WorkIsApproved
  <2>1. /\ planId[w] \in Plans /\ planId[w] # Nothing /\ record[planId[w]].workflow = w
        /\ record[planId[w]].status = "approved" /\ record[planId[w]].approved = work[w]
    BY Names DEF Inv, PlansAreHeld, WorkWasApproved
  <2>2. work[w] \in Sayings /\ Valid(work[w])
    BY <2>1 DEF Inv, ApprovalsHold
  <2> QED
    BY <2>1, <2>2, SayingsCanBeCarriedOut
<1> QED
  BY <1>1, ApprovalInvariance, PTL


\* A new plan may only be made of a record that no decision was taken on, and only while
\* its workflow has none that was decided on.
LEMMA RegisteredRecords ==
  ASSUME Inv, NEW w \in Workflows, NEW p \in Plans, CanRegister(p, w),
         \/ record' \in {record, [record EXCEPT ![p] = Draft(w)]}
         \/ CanReplace(w) /\ record' \in {Replaced(w, p), RejectedOnly(w, p)},
         NEW q \in Plans, record[q].status \in {"approved", "rejected"}
  PROVE  record'[q] = record[q]
<1>1. record[p].status \in {"none", "draft"} /\ q # p
  BY DEF CanRegister, Unregistered, Draft
<1>2. CanReplace(w) => planId[w] \in Plans /\ q # planId[w]
  BY DEF CanReplace, Inv, PlansAreHeld
<1> QED
  BY <1>1, <1>2 DEF Replaced, RejectedOnly, Inv, TypeOK

\* No step undoes a decision.
LEMMA FinalStep ==
  ASSUME Inv, [Next]_vars
  PROVE  /\ \A p \in Plans : record[p].status \in {"approved", "rejected"} => record'[p] = record[p]
         /\ \A w \in Workflows :
              status[w] \notin {"planning", "awaiting_plan_approval"} => planId'[w] = planId[w]
<1> DEFINE Final ==
      /\ \A p \in Plans : record[p].status \in {"approved", "rejected"} => record'[p] = record[p]
      /\ \A w \in Workflows :
           status[w] \notin {"planning", "awaiting_plan_approval"} => planId'[w] = planId[w]
<1>1. ASSUME NEW c \in Calls, NEW p \in Plans, PlannerReturns(c, p) PROVE Final
  <2> DEFINE w == calls[c].workflow
  <2>1. w \in Workflows /\ CanRegister(p, w)
    BY <1>1, CallFacts DEF PlannerReturns, CanRegister
  <2>2. \/ record' \in {record, [record EXCEPT ![p] = Draft(w)]}
        \/ CanReplace(w) /\ record' = Replaced(w, p)
    BY <1>1 DEF PlannerReturns, plans
  <2>3. \A v \in Workflows : planId'[v] # planId[v] =>
          v = w /\ status[w] \in {"planning", "awaiting_plan_approval"}
    BY <1>1, <2>1, LegalFacts DEF PlannerReturns, CanReplace, Inv, TypeOK
  <2> QED
    BY <2>1, <2>2, <2>3, RegisteredRecords
<1>2. ASSUME NEW w \in Workflows, NEW p \in Plans, NEW x \in Contents, ReplaceDraft(w, p, x)
      PROVE  Final
  <2>1. CanReplace(w) /\ planId[w] \in Plans /\ record[planId[w]].status = "draft"
    BY <1>2 DEF ReplaceDraft, CanReplace, Inv, PlansAreHeld
  <2>2. CASE CanRegister(p, w) /\ record' = Replaced(w, p) /\ planId' = [planId EXCEPT ![w] = p]
    BY <2>1, <2>2, RegisteredRecords DEF CanReplace, Inv, TypeOK
  <2>3. CASE record' = [record EXCEPT ![planId[w]].status = "rejected"] /\ UNCHANGED planId
    BY <2>1, <2>3 DEF Inv, TypeOK
  <2> QED
    BY <1>2, <2>2, <2>3 DEF ReplaceDraft
<1>3. ASSUME NEW w \in Workflows, NEW p \in Plans, ApprovePlan(w, p) \/ RejectPlan(w, p)
      PROVE  Final
  BY <1>3 DEF ApprovePlan, RejectPlan, RejectedRecord, Inv, TypeOK
<1>4. ASSUME UNCHANGED <<planId, record>> PROVE Final
  BY <1>4
<1> QED
  <2> HIDE DEF Final
  <2>1. ASSUME NEW w \in Workflows,
               \/ \E c \in Calls : CreatePlan(c, w)
               \/ \E p \in Plans : Run(w, p)
               \/ StartTask(w) \/ EndTask(w) \/ Retry(w) \/ AbortWorkflow(w)
        PROVE  Final
    BY <1>4, <2>1 DEF CreatePlan, Run, StartTask, EndTask, Retry, AbortWorkflow, plans
  <2>2. ASSUME NEW c \in Calls, PlannerThrows(c) PROVE Final
    BY <1>4, <2>2 DEF PlannerThrows, plans
  <2>3. ASSUME NEW p \in Plans, Edit(p) PROVE Final
    BY <1>4, <2>3 DEF Edit, flow
  <2>4. ASSUME UNCHANGED vars PROVE Final
    BY <1>4, <2>4 DEF vars, flow, plans
  <2>5. Final
    BY <1>1, <1>2, <1>3, <2>1, <2>2, <2>3, <2>4 DEF Next
  <2> QED
    BY <2>5 DEF Final

\* Decisions are final: an approval keeps its content and workflow, a rejected plan stays
\* rejected, and a plan that comes late does not replace one that was decided on.
THEOREM DecisionsStay == Spec => DecisionsAreFinal
<1>1. Inv /\ [Next]_vars =>
        [/\ \A p \in Plans : record[p].status \in {"approved", "rejected"} => record'[p] = record[p]
         /\ \A w \in Workflows :
              status[w] \notin {"planning", "awaiting_plan_approval"} => planId'[w] = planId[w]]_vars
  BY FinalStep
<1> QED
  BY <1>1, ApprovalInvariance, PTL DEF Spec, DecisionsAreFinal

\* A call that fails does not touch a workflow that awaits approval: the call that could
\* fail it has returned already.
LEMMA FailingLeavesOffers ==
  ASSUME Inv, NEW c \in Calls, calls[c] # NoCall, PlanningFails(calls[c]),
         NEW w \in Workflows
  PROVE  /\ status[w] = "awaiting_plan_approval" => status'[w] = status[w]
         /\ status'[w] = "awaiting_plan_approval" => status[w] = status'[w]
<1> DEFINE v == calls[c].workflow
<1>1. /\ v \in Workflows
      /\ \/ UNCHANGED status
         \/ ~calls[c].replacing /\ status' = [status EXCEPT ![v] = "failed"]
  BY CallFacts
<1>2. ~calls[c].replacing => status[v] # "awaiting_plan_approval"
  BY DEF Inv, OnePlanner, Stopped
<1> QED
  BY <1>1, <1>2 DEF Inv, TypeOK

\* A step ends the wait for approval by a decision or an abort only, and a step of a
\* createPlan call leaves a draft to decide on.
LEMMA OfferStep ==
  ASSUME Inv, [Next]_vars, NEW w \in Workflows
  PROVE  /\ status[w] = "awaiting_plan_approval" /\ status'[w] # status[w] =>
              status'[w] = "aborted" \/ record'[planId[w]].status \in {"approved", "rejected"}
         /\ /\ status'[w] = "awaiting_plan_approval" /\ calls' # calls
            /\ status[w] = "awaiting_plan_approval" => record[planId[w]] = Draft(w)
            => planId'[w] # Nothing /\ record'[planId'[w]] = Draft(w)
<1> DEFINE Awaits == status[w] = "awaiting_plan_approval"
           Offered == Awaits => record[planId[w]] = Draft(w)
           Kept ==
             /\ Awaits /\ status'[w] # status[w] =>
                  status'[w] = "aborted" \/ record'[planId[w]].status \in {"approved", "rejected"}
             /\ status'[w] = "awaiting_plan_approval" /\ calls' # calls /\ Offered =>
                  planId'[w] # Nothing /\ record'[planId'[w]] = Draft(w)
<1>0. Awaits => planId[w] \in Plans /\ planId[w] # Nothing /\ record[planId[w]].workflow = w
  BY Names DEF Inv, PlansAreHeld
<1>1. ASSUME UNCHANGED calls, status[w] = "awaiting_plan_approval" => status'[w] \in {status[w], "aborted"}
      PROVE  Kept
  BY <1>1
<1>2. ASSUME UNCHANGED <<planId, record>>,
             Awaits => status'[w] = status[w],
             status'[w] = "awaiting_plan_approval" => status'[w] = status[w]
      PROVE  Kept
  BY <1>0, <1>2
<1>3. ASSUME NEW c \in Calls, NEW v \in Workflows, CreatePlan(c, v) PROVE Kept
  BY <1>2, <1>3 DEF CreatePlan, plans, Enter, Legal, Transitions, Statuses, Stopped, Inv, TypeOK
<1>4. ASSUME NEW c \in Calls, NEW p \in Plans, PlannerReturns(c, p) PROVE Kept
  <2> DEFINE v == calls[c].workflow
  <2>1. calls[c] # NoCall /\ v \in Workflows /\ record[p] = Unregistered
    BY <1>4, CallFacts DEF PlannerReturns
  <2>2. CASE PlanningFails(calls[c]) /\ UNCHANGED <<planId, record>>
    BY <1>2, <2>1, <2>2, FailingLeavesOffers
  <2>3. CASE /\ PlanningFails(calls[c]) /\ UNCHANGED planId
             /\ record' = [record EXCEPT ![p] = Draft(v)]
    <3>1. Awaits => planId[w] # p
      BY <1>0, <2>1, Names DEF Unregistered
    <3>2. Awaits => record'[planId[w]] = record[planId[w]]
      BY <1>0, <2>3, <3>1 DEF Inv, TypeOK
    <3> QED
      BY <1>0, <2>1, <2>3, <3>2, FailingLeavesOffers
  <2>4. CASE /\ planId' = [planId EXCEPT ![v] = p]
             /\ \/ CanReplace(v) /\ record' = Replaced(v, p) /\ UNCHANGED status
                \/ /\ record' = [record EXCEPT ![p] = Draft(v)]
                   /\ status' = [status EXCEPT ![v] = "awaiting_plan_approval"]
    <3>1. CASE w = v
      <4>1. planId'[w] = p /\ p # Nothing
        BY <2>4, <3>1, Names DEF Inv, TypeOK
      <4>2. record'[p] = Draft(w)
        BY <2>4, <3>1 DEF Replaced, Inv, TypeOK
      <4>3. Awaits => status'[w] = status[w]
        BY <2>4, <3>1 DEF Inv, TypeOK
      <4> QED
        BY <4>1, <4>2, <4>3
    <3>2. CASE w # v
      <4>1. planId'[w] = planId[w] /\ status'[w] = status[w]
        BY <2>1, <2>4, <3>2 DEF Inv, TypeOK
      <4>2. Awaits => planId[w] # p
        BY <1>0, <2>1, Names DEF Unregistered
      <4>3. CanReplace(v) => planId[v] \in Plans /\ record[planId[v]].workflow = v
        BY <2>1, Names DEF CanReplace, Inv, PlansAreHeld
      <4>4. Awaits => record'[planId[w]] = record[planId[w]]
        BY <1>0, <2>1, <2>4, <3>2, <4>2, <4>3 DEF Replaced, Inv, TypeOK
      <4> QED
        BY <1>0, <4>1, <4>4
    <3> QED
      BY <3>1, <3>2
  <2> QED
    <3> HIDE DEF Kept
    <3> QED
      BY <1>4, <2>2, <2>3, <2>4 DEF PlannerReturns, plans, Enter
<1>5. ASSUME NEW c \in Calls, PlannerThrows(c) PROVE Kept
  BY <1>2, <1>5, FailingLeavesOffers DEF PlannerThrows, plans
<1>6. ASSUME NEW v \in Workflows, NEW p \in Plans, ApprovePlan(v, p) \/ RejectPlan(v, p) PROVE Kept
  <2>1. UNCHANGED calls /\ planId[v] = p /\ record'[p].status \in {"approved", "rejected"}
    BY <1>6 DEF ApprovePlan, RejectPlan, RejectedRecord, Inv, TypeOK
  <2>2. w # v => status'[w] = status[w]
    BY <1>6 DEF ApprovePlan, RejectPlan, Enter, Inv, TypeOK
  <2> QED
    BY <2>1, <2>2
<1>7. ASSUME NEW v \in Workflows,
             \/ \E p \in Plans : (\E x \in Contents : ReplaceDraft(v, p, x)) \/ Run(v, p)
             \/ StartTask(v) \/ EndTask(v) \/ Retry(v) \/ AbortWorkflow(v)
      PROVE  Kept
  <2>1. UNCHANGED calls
    BY <1>7 DEF ReplaceDraft, Run, StartTask, EndTask, Retry, AbortWorkflow
  <2>2. Awaits => status'[w] \in {status[w], "aborted"}
    BY <1>7 DEF ReplaceDraft, Run, StartTask, EndTask, Retry, AbortWorkflow, Enter, Inv, TypeOK
  <2> QED
    BY <1>1, <2>1, <2>2
<1>8. ASSUME UNCHANGED vars \/ \E p \in Plans : Edit(p) PROVE Kept
  BY <1>2, <1>8 DEF vars, flow, plans, Edit
<1>9. Kept
  <2> HIDE DEF Kept
  <2> QED
    BY <1>3, <1>4, <1>5, <1>6, <1>7, <1>8 DEF Next
<1> QED
  BY <1>9

\* A workflow that awaits approval stops doing so by a decision or an abort, never because
\* another plan could not be made, and asking for a plan again leaves one to decide on.
THEOREM DraftStaysOffered == Spec => DraftIsOffered
<1>1. Inv /\ [Next]_vars =>
        [\A w \in Workflows :
           /\ status[w] = "awaiting_plan_approval" /\ status'[w] # status[w] =>
                status'[w] = "aborted" \/ record'[planId[w]].status \in {"approved", "rejected"}
           /\ /\ status'[w] = "awaiting_plan_approval" /\ calls' # calls
              /\ status[w] = "awaiting_plan_approval" => record[planId[w]] = Draft(w)
              => planId'[w] # Nothing /\ record'[planId'[w]] = Draft(w)]_vars
  BY OfferStep
<1> QED
  BY <1>1, ApprovalInvariance, PTL DEF Spec, DraftIsOffered
=============================================================================
