---------------------------- MODULE PlannerProofs ----------------------------
(***************************************************************************)
(* Theorems about Planner: a stored plan can be finished and is a plan, a  *)
(* revision keeps the work that is done, history is kept and the model is  *)
(* asked a bounded number of questions. PlannerInv says what every         *)
(* transaction leaves in the rows; that an acyclic graph is finished by    *)
(* the scheduler is two inductions over natural numbers, by the least      *)
(* element of the set of those it would fail for.                          *)
(***************************************************************************)
EXTENDS Planner, TLAPS, NaturalsInduction, WellFoundedInduction, FiniteSetTheorems, SequenceTheorems

(***************************************************************************)
(* Natural numbers                                                         *)
(***************************************************************************)
\* A set of natural numbers that is not empty has a least element.
LEMMA LeastElement ==
  ASSUME NEW S, S \subseteq Nat, S # {}
  PROVE  \E x \in S : \A y \in S : x <= y
<1> DEFINE Less == {ss \in Nat \X Nat : ss[1] < ss[2]}
<1>1. IsWellFoundedOn(Less, Nat)
  BY NatLessThanWellFounded DEF OpToRel
<1>2. PICK x \in S : \A y \in S : <<y, x>> \notin Less
  <2> HIDE DEF Less
  <2> QED BY <1>1, WFMin
<1>3. ASSUME NEW y \in S PROVE x <= y
  <2>1. <<y, x>> \in Nat \X Nat /\ <<y, x>>[1] = y /\ <<y, x>>[2] = x
    OBVIOUS
  <2>2. ~ (y < x)
    BY <1>2, <2>1
  <2>3. QED BY <2>2
<1>4. QED BY <1>3

\* What holds of 0 and passes from each number to the next, up to N, holds up to N.
LEMMA SetInduction ==
  ASSUME NEW N \in Nat, NEW S, 0 \in S, \A n \in 0..N : n \in S /\ n < N => n + 1 \in S
  PROVE  0..N \subseteq S
<1>1. SUFFICES ASSUME (0..N) \ S # {} PROVE FALSE
  OBVIOUS
<1>2. PICK x \in (0..N) \ S : \A y \in (0..N) \ S : x <= y
  <2> DEFINE T == (0..N) \ S
  <2>1. T \subseteq Nat /\ T # {}
    BY <1>1
  <2> HIDE DEF T
  <2>2. \E x \in T : \A y \in T : x <= y
    BY <2>1, LeastElement
  <2> QED BY <2>2 DEF T
<1>3. x - 1 \in 0..N /\ x - 1 < N
  BY <1>2
<1>4. x - 1 \in S
  BY <1>2, <1>3
<1>5. (x - 1) + 1 = x
  BY <1>2
<1>6. QED BY <1>2, <1>3, <1>4, <1>5

\* A value that is refined again and again: the values it takes.
HasIterates(X, base, step, N) ==
  \E f \in [0..N -> X] : f[0] = base /\ \A n \in 1..N : f[n] = step[f[n - 1]]

\* Its values exist, as a function of the number of refinements.
LEMMA Iterates ==
  ASSUME NEW X, NEW base \in X, NEW step \in [X -> X], NEW N \in Nat
  PROVE  HasIterates(X, base, step, N)
<1> DEFINE Upto(f, m) == f[0] = base /\ \A n \in 1..m : f[n] = step[f[n - 1]]
           S == {m \in 0..N : \E f \in [0..m -> X] : Upto(f, m)}
<1>1. 0 \in S
  <2> DEFINE f == [n \in 0..0 |-> base]
  <2>1. f \in [0..0 -> X] /\ f[0] = base /\ 0 \in 0..N
    OBVIOUS
  <2>2. \A n \in 1..0 : f[n] = step[f[n - 1]]
    OBVIOUS
  <2> QED BY <2>1, <2>2
<1>2. ASSUME NEW m \in 0..N, m \in S, m < N PROVE m + 1 \in S
  <2>1. PICK f \in [0..m -> X] : Upto(f, m)
    BY <1>2
  <2> DEFINE g == [n \in 0..(m + 1) |-> IF n = m + 1 THEN step[f[m]] ELSE f[n]]
  <2>2. g \in [0..(m + 1) -> X]
    BY <2>1
  <2>3. g[0] = base
    BY <2>1
  <2>4. ASSUME NEW n \in 1..(m + 1) PROVE g[n] = step[g[n - 1]]
    <3>1. CASE n = m + 1
      BY <3>1
    <3>2. CASE n # m + 1
      <4>1. n \in 1..m /\ n - 1 \in 0..m
        BY <3>2
      <4>2. g[n] = f[n] /\ g[n - 1] = f[n - 1]
        BY <4>1, <3>2
      <4> QED BY <2>1, <4>1, <4>2
    <3> QED BY <3>1, <3>2
  <2>5. Upto(g, m + 1)
    BY <2>3, <2>4
  <2> HIDE DEF g, Upto
  <2>6. m + 1 \in 0..N
    BY <1>2
  <2> QED BY <2>2, <2>5, <2>6
<1>3. N \in S
  <2> HIDE DEF S
  <2>1. 0..N \subseteq S
    BY <1>1, <1>2, SetInduction
  <2> QED BY <2>1
<1> QED BY <1>3 DEF HasIterates

\* A set of numbers 1..k has at most k elements, and k only if it is all of them.
LEMMA PartOfInterval ==
  ASSUME NEW k \in Nat, NEW S \in SUBSET (1..k)
  PROVE  /\ IsFiniteSet(S) /\ Cardinality(S) \in Nat
         /\ Cardinality(S) <= k /\ (Cardinality(S) = k => S = 1..k)
<1>1. IsFiniteSet(1..k) /\ Cardinality(1..k) = k
  BY FS_Interval
<1>2. IsFiniteSet(S) /\ Cardinality(S) <= Cardinality(1..k) /\ (Cardinality(1..k) = Cardinality(S) => 1..k = S)
  BY <1>1, FS_Subset
<1>3. Cardinality(S) \in Nat
  BY <1>2, FS_CardinalityType
<1> QED BY <1>1, <1>2, <1>3

(***************************************************************************)
(* The graph of dependencies: what Acyclic promises, the scheduler keeps.  *)
(***************************************************************************)
\* The tasks 1..k, and a function that gives each the tasks it depends on.
IsGraph(deps, k) == k \in Nat /\ deps \in [1..k -> SUBSET (1..k)]

\* The steps in which Closure() collects what a task depends on.
HasClosureSteps(deps, k, i) ==
  \E f \in [0..k -> SUBSET (1..k)] :
    /\ f[0] = deps[i] /\ f[k] = Closure(deps, i)
    /\ \A n \in 1..k : f[n] = f[n - 1] \cup UNION {deps[j] : j \in f[n - 1]}

\* The closure that the graph is checked with is built in such steps.
LEMMA ClosureSteps ==
  ASSUME NEW deps, NEW k, IsGraph(deps, k), NEW i \in 1..k
  PROVE  HasClosureSteps(deps, k, i)
<1> DEFINE X == SUBSET (1..k)
           step == [S \in X |-> S \cup UNION {deps[j] : j \in S}]
<1>1. k \in Nat /\ deps \in [1..k -> X] /\ Cardinality(DOMAIN deps) = k
  BY FS_Interval DEF IsGraph
<1>2. step \in [X -> X]
  <2>1. ASSUME NEW S \in X PROVE S \cup UNION {deps[j] : j \in S} \in X
    <3>1. \A j \in S : deps[j] \subseteq 1..k
      BY <1>1
    <3> QED BY <3>1
  <2> QED BY <2>1
<1>3. PICK f \in [0..k -> X] : f[0] = deps[i] /\ \A n \in 1..k : f[n] = step[f[n - 1]]
  <2> HIDE DEF step, X
  <2>1. deps[i] \in X
    BY <1>1
  <2>2. k \in Nat
    BY <1>1
  <2>3. HasIterates(X, deps[i], step, k)
    BY <1>2, <2>1, <2>2, Iterates
  <2> QED BY <2>3 DEF HasIterates
<1>4. ASSUME NEW n \in 1..k
      PROVE f[n] = f[n - 1] \cup UNION {deps[j] : j \in f[n - 1]}
  <2>1. f[n - 1] \in X
    BY <1>1
  <2> QED BY <1>3, <2>1
<1>5. f = [n \in 0..k |-> IF n = 0 THEN deps[i] ELSE f[n - 1] \cup UNION {deps[j] : j \in f[n - 1]}]
  <2>1. \A n \in 0..k : n # 0 => n \in 1..k
    BY <1>1
  <2> QED BY <1>3, <1>4, <2>1
<1> DEFINE Is(g) == g = [n \in 0..k |-> IF n = 0 THEN deps[i] ELSE g[n - 1] \cup UNION {deps[j] : j \in g[n - 1]}]
           h == CHOOSE g : Is(g)
<1>6. Is(h)
  <2>1. Is(f)
    BY <1>5
  <2> HIDE DEF Is
  <2> QED BY <2>1, Zenon
<1>7. Closure(deps, i) = h[k]
  BY <1>1, Zenon DEF Closure
<1> HIDE DEF h
<1>8. h[0] = deps[i] /\ \A n \in 1..k : h[n] = h[n - 1] \cup UNION {deps[j] : j \in h[n - 1]}
  <2>1. 0 \in 0..k /\ \A n \in 1..k : n \in 0..k /\ n # 0
    BY <1>1
  <2> QED BY <1>6, <2>1
<1>9. h \in [0..k -> X]
  <2> DEFINE T == {n \in 0..k : h[n] \in X}
  <2>1. 0 \in T
    BY <1>1, <1>8
  <2>2. ASSUME NEW n \in 0..k, n \in T, n < k PROVE n + 1 \in T
    <3>1. n + 1 \in 1..k /\ (n + 1) - 1 = n
      BY <2>2, <1>1
    <3>2. h[n + 1] = h[n] \cup UNION {deps[j] : j \in h[n]}
      BY <1>8, <3>1
    <3>3. h[n] \in X
      BY <2>2
    <3>4. h[n + 1] \in X
      BY <1>1, <3>2, <3>3
    <3> QED BY <3>1, <3>4
  <2>3. 0..k \subseteq T
    <3> HIDE DEF T
    <3> QED BY <1>1, <2>1, <2>2, SetInduction
  <2>4. h = [n \in 0..k |-> h[n]]
    BY <1>6
  <2> QED BY <2>3, <2>4
<1> QED BY <1>7, <1>8, <1>9 DEF HasClosureSteps

\* What a task depends on includes what that depends on.
LEMMA ClosureIsClosed ==
  ASSUME NEW deps, NEW k, IsGraph(deps, k), NEW i \in 1..k
  PROVE  /\ Closure(deps, i) \subseteq 1..k /\ deps[i] \subseteq Closure(deps, i)
         /\ \A j \in Closure(deps, i) : deps[j] \subseteq Closure(deps, i)
<1>1. k \in Nat /\ deps \in [1..k -> SUBSET (1..k)]
  BY DEF IsGraph
<1>2. PICK f \in [0..k -> SUBSET (1..k)] :
           /\ f[0] = deps[i] /\ f[k] = Closure(deps, i)
           /\ \A n \in 1..k : f[n] = f[n - 1] \cup UNION {deps[j] : j \in f[n - 1]}
  BY ClosureSteps DEF HasClosureSteps
<1> DEFINE Saturated(S) == \A j \in S : deps[j] \subseteq S
           T == {n \in 0..k : deps[i] \subseteq f[n] /\ (Saturated(f[n]) \/ Cardinality(f[n]) >= n)}
<1>3. IsFiniteSet(1..k) /\ Cardinality(1..k) = k
  BY <1>1, FS_Interval
<1>4. ASSUME NEW S \in SUBSET (1..k) PROVE IsFiniteSet(S) /\ Cardinality(S) \in Nat
  BY <1>3, FS_Subset, FS_CardinalityType
<1>5. 0 \in T
  <2>1. f[0] \in SUBSET (1..k)
    BY <1>1, <1>2
  <2> QED BY <1>1, <1>2, <1>4, <2>1
<1>6. ASSUME NEW n \in 0..k, n \in T, n < k PROVE n + 1 \in T
  <2>1. n + 1 \in 1..k /\ (n + 1) - 1 = n /\ n + 1 \in 0..k
    BY <1>1, <1>6
  <2>2. f[n + 1] = f[n] \cup UNION {deps[j] : j \in f[n]}
    BY <1>2, <2>1
  <2>3. f[n] \in SUBSET (1..k) /\ f[n + 1] \in SUBSET (1..k)
    BY <1>2, <2>1
  <2>4. CASE Saturated(f[n])
    <3>1. f[n + 1] = f[n]
      BY <2>2, <2>4
    <3> QED BY <1>6, <2>1, <2>4, <3>1
  <2>5. CASE ~Saturated(f[n])
    <3>0. PICK j \in f[n] : ~(deps[j] \subseteq f[n])
      BY <2>5
    <3>1. PICK u \in deps[j] : u \notin f[n]
      BY <3>0
    <3>2. u \in f[n + 1] /\ f[n] \subseteq f[n + 1]
      BY <2>2, <3>0, <3>1
    <3>3. Cardinality(f[n]) < Cardinality(f[n + 1])
      <4>1. f[n] # f[n + 1]
        BY <3>1, <3>2
      <4>2. Cardinality(f[n]) <= Cardinality(f[n + 1]) /\ Cardinality(f[n]) # Cardinality(f[n + 1])
        BY <1>4, <2>3, <3>2, <4>1, FS_Subset
      <4> QED BY <1>4, <2>3, <4>2
    <3>4. Cardinality(f[n]) >= n /\ deps[i] \subseteq f[n]
      BY <1>6, <2>5
    <3>5. Cardinality(f[n + 1]) >= n + 1
      BY <1>4, <2>3, <3>3, <3>4
    <3> QED BY <2>1, <3>2, <3>4, <3>5
  <2> QED BY <2>4, <2>5
<1>7. k \in T
  <2> HIDE DEF T
  <2>1. 0..k \subseteq T
    BY <1>1, <1>5, <1>6, SetInduction
  <2> QED BY <1>1, <2>1
<1>8. Saturated(f[k])
  <2>1. f[k] \in SUBSET (1..k)
    BY <1>1, <1>2
  <2>2. CASE Cardinality(f[k]) >= k
    <3>1. Cardinality(f[k]) <= k /\ (Cardinality(f[k]) = k => f[k] = 1..k)
      BY <1>3, <2>1, FS_Subset
    <3>2. f[k] = 1..k
      BY <1>1, <1>4, <2>1, <2>2, <3>1
    <3> QED BY <1>1, <3>2
  <2> QED BY <1>7, <2>2
<1> QED BY <1>1, <1>2, <1>7, <1>8

\* A dependency depends on nothing that the task does not depend on.
LEMMA ClosureOfDependency ==
  ASSUME NEW deps, NEW k, IsGraph(deps, k), NEW i \in 1..k, NEW d \in deps[i]
  PROVE  Closure(deps, d) \subseteq Closure(deps, i)
<1>1. k \in Nat /\ deps \in [1..k -> SUBSET (1..k)] /\ d \in 1..k
  BY DEF IsGraph
<1> DEFINE C == Closure(deps, i)
<1>2. d \in C /\ \A j \in C : deps[j] \subseteq C
  BY ClosureIsClosed
<1>3. PICK f \in [0..k -> SUBSET (1..k)] :
           /\ f[0] = deps[d] /\ f[k] = Closure(deps, d)
           /\ \A n \in 1..k : f[n] = f[n - 1] \cup UNION {deps[j] : j \in f[n - 1]}
  <2>1. HasClosureSteps(deps, k, d)
    BY <1>1, ClosureSteps
  <2> QED BY <2>1 DEF HasClosureSteps
<1> HIDE DEF C
<1> DEFINE T == {n \in 0..k : f[n] \subseteq C}
<1>4. 0 \in T
  BY <1>1, <1>2, <1>3
<1>5. ASSUME NEW n \in 0..k, n \in T, n < k PROVE n + 1 \in T
  <2>1. n + 1 \in 1..k /\ (n + 1) - 1 = n /\ n + 1 \in 0..k
    BY <1>1, <1>5
  <2>2. f[n + 1] = f[n] \cup UNION {deps[j] : j \in f[n]}
    BY <1>3, <2>1
  <2> QED BY <1>2, <1>5, <2>1, <2>2
<1>6. k \in T
  <2> HIDE DEF T
  <2>1. 0..k \subseteq T
    BY <1>1, <1>4, <1>5, SetInduction
  <2> QED BY <1>1, <2>1
<1> QED BY <1>3, <1>6 DEF C

\* As long as a task of an acyclic graph is left, one is left that waits for none of those left.
LEMMA SomeTaskIsNext ==
  ASSUME NEW deps, NEW k, IsGraph(deps, k), Acyclic(deps), NEW W \in SUBSET (1..k), W # 1..k
  PROVE  \E t \in (1..k) \ W : deps[t] \subseteq W
<1>1. k \in Nat /\ deps \in [1..k -> SUBSET (1..k)]
  BY DEF IsGraph
<1> DEFINE Waits(t) == Cardinality(Closure(deps, t))
           S == {Waits(t) : t \in (1..k) \ W}
<1>2. ASSUME NEW t \in 1..k PROVE IsFiniteSet(Closure(deps, t)) /\ Waits(t) \in Nat
  <2>1. Closure(deps, t) \subseteq 1..k
    BY ClosureIsClosed
  <2>2. IsFiniteSet(1..k)
    BY <1>1, FS_Interval
  <2> QED BY <2>1, <2>2, FS_Subset, FS_CardinalityType
<1>3. PICK t \in (1..k) \ W : \A u \in (1..k) \ W : Waits(t) <= Waits(u)
  <2>1. S \subseteq Nat /\ S # {}
    BY <1>2
  <2>2. PICK x \in S : \A y \in S : x <= y
    <3> HIDE DEF S
    <3> QED BY <2>1, LeastElement
  <2> QED BY <2>2
<1>4. ASSUME NEW d \in deps[t], d \notin W PROVE FALSE
  <2>1. d \in (1..k) \ W
    BY <1>1, <1>4
  <2>2. Closure(deps, d) \subseteq Closure(deps, t) /\ d \in Closure(deps, t)
    BY ClosureOfDependency, ClosureIsClosed
  <2>3. d \notin Closure(deps, d)
    BY <1>1, <2>1 DEF Acyclic
  <2>4. Waits(d) <= Waits(t) /\ Waits(d) # Waits(t)
    <3>1. Closure(deps, d) # Closure(deps, t) /\ IsFiniteSet(Closure(deps, t))
      BY <1>2, <2>2, <2>3
    <3> QED BY <2>2, <3>1, FS_Subset
  <2>5. Waits(t) <= Waits(d) /\ Waits(t) \in Nat /\ Waits(d) \in Nat
    BY <1>2, <1>3, <2>1
  <2> HIDE DEF Waits
  <2> QED BY <2>4, <2>5
<1> QED BY <1>4

\* One round of the scheduler, if no task fails.
Round(deps, st) == [t \in DOMAIN deps |-> IF Refreshed(deps, st)[t] \in {"READY", "DONE"} THEN "DONE" ELSE "PENDING"]

\* In a round the tasks are done that were done before, and those that wait for no others.
LEMMA RoundStep ==
  ASSUME NEW deps, NEW k, IsGraph(deps, k), NEW st \in [1..k -> {"PENDING", "DONE"}]
  PROVE  /\ Round(deps, st) \in [1..k -> {"PENDING", "DONE"}]
         /\ \A t \in 1..k : Round(deps, st)[t] = "DONE"
                              <=> st[t] = "DONE" \/ \A d \in deps[t] : st[d] = "DONE"
<1>1. k \in Nat /\ deps \in [1..k -> SUBSET (1..k)]
  BY DEF IsGraph
<1>2. ASSUME NEW t \in 1..k
      PROVE  Refreshed(deps, st)[t] \in {"READY", "DONE"}
               <=> st[t] = "DONE" \/ \A d \in deps[t] : st[d] = "DONE"
  <2>1. Refreshed(deps, st)[t] = IF st[t] = "DONE" THEN "DONE" ELSE CalculatedStatus(deps, st, t)
    BY <1>1 DEF Refreshed, ActiveStatuses, TerminalStatuses
  <2>2. deps[t] \subseteq 1..k
    BY <1>1
  <2>3. CalculatedStatus(deps, st, t) = IF \A d \in deps[t] : st[d] = "DONE" THEN "READY" ELSE "PENDING"
    <3>1. \A d \in deps[t] : st[d] \notin BlockingStatuses
      BY <2>2 DEF BlockingStatuses
    <3> QED BY <3>1 DEF CalculatedStatus
  <2> QED BY <2>1, <2>3
<1> QED BY <1>1, <1>2 DEF Round

\* Every task of an acyclic graph is done after as many rounds as there are tasks.
THEOREM AcyclicGraphsFinish ==
  ASSUME NEW deps, NEW k, IsGraph(deps, k), Acyclic(deps)
  PROVE  \A t \in DOMAIN deps : Rounds(deps)[t] = "DONE"
<1> DEFINE X == [1..k -> {"PENDING", "DONE"}]
           none == [t \in DOMAIN deps |-> "PENDING"]
           step == [st \in X |-> Round(deps, st)]
           Is(g) == g = [n \in 0..k |-> IF n = 0 THEN none ELSE Round(deps, g[n - 1])]
           h == CHOOSE g : Is(g)
<1>1. k \in Nat /\ deps \in [1..k -> SUBSET (1..k)] /\ Cardinality(DOMAIN deps) = k
  BY FS_Interval DEF IsGraph
<1>2. none \in X /\ step \in [X -> X]
  BY <1>1, RoundStep
<1>3. PICK f \in [0..k -> X] : f[0] = none /\ \A n \in 1..k : f[n] = step[f[n - 1]]
  <2>1. k \in Nat
    BY <1>1
  <2>2. HasIterates(X, none, step, k)
    <3> HIDE DEF X, none, step
    <3> QED BY <1>2, <2>1, Iterates
  <2> QED BY <2>2 DEF HasIterates
<1>4. Is(f)
  <2>1. \A n \in 0..k : n # 0 => n \in 1..k /\ n - 1 \in 0..k
    BY <1>1
  <2> HIDE DEF X, none
  <2>2. ASSUME NEW n \in 1..k PROVE f[n] = Round(deps, f[n - 1])
    <3>1. n - 1 \in 0..k
      BY <1>1
    <3>2. f[n - 1] \in X
      BY <1>3, <3>1
    <3> QED BY <1>3, <3>2
  <2> QED BY <1>3, <2>1, <2>2
<1>5. Is(h)
  <2> HIDE DEF Is
  <2> QED BY <1>4, Zenon
<1>6. Rounds(deps) = h[k]
  BY <1>1, Zenon DEF Rounds, Round
<1> HIDE DEF h
<1>7. h[0] = none /\ \A n \in 1..k : h[n] = Round(deps, h[n - 1])
  <2>1. 0 \in 0..k /\ \A n \in 1..k : n \in 0..k /\ n # 0
    BY <1>1
  <2> HIDE DEF none
  <2> QED BY <1>5, <2>1
<1> DEFINE Done(n) == {t \in 1..k : h[n][t] = "DONE"}
           T == {n \in 0..k : h[n] \in X /\ (Done(n) = 1..k \/ Cardinality(Done(n)) >= n)}
<1>9. ASSUME NEW S \in SUBSET (1..k) PROVE IsFiniteSet(S) /\ Cardinality(S) \in Nat
  BY <1>1, PartOfInterval
<1>10. 0 \in T
  <2>1. Done(0) \in SUBSET (1..k) /\ 0 \in 0..k
    BY <1>1
  <2> QED BY <1>2, <1>7, <1>9, <2>1
<1>11. ASSUME NEW n \in 0..k, n \in T, n < k PROVE n + 1 \in T
  <2>1. n + 1 \in 1..k /\ (n + 1) - 1 = n /\ n + 1 \in 0..k
    BY <1>1, <1>11
  <2>2. h[n + 1] = Round(deps, h[n]) /\ h[n] \in X
    BY <1>7, <1>11, <2>1
  <2>3. /\ h[n + 1] \in X
        /\ \A t \in 1..k : h[n + 1][t] = "DONE" <=> h[n][t] = "DONE" \/ \A d \in deps[t] : h[n][d] = "DONE"
    BY <2>2, RoundStep
  <2>4. Done(n) \in SUBSET (1..k) /\ Done(n + 1) \in SUBSET (1..k) /\ Done(n) \subseteq Done(n + 1)
    BY <2>3
  <2>5. CASE Done(n) = 1..k
    BY <2>1, <2>3, <2>4, <2>5
  <2>6. CASE Done(n) # 1..k
    <3>1. PICK t \in (1..k) \ Done(n) : deps[t] \subseteq Done(n)
      <4> HIDE DEF Done
      <4> QED BY <2>4, <2>6, SomeTaskIsNext
    <3>2. t \in Done(n + 1)
      BY <2>3, <3>1
    <3>3. Cardinality(Done(n)) >= n
      BY <1>11, <2>6
    <3> HIDE DEF Done
    <3>4. Done(n) # Done(n + 1)
      BY <3>1, <3>2
    <3>5. Cardinality(Done(n)) <= Cardinality(Done(n + 1)) /\ Cardinality(Done(n)) # Cardinality(Done(n + 1))
      BY <1>9, <2>4, <3>4, FS_Subset
    <3>6. Cardinality(Done(n + 1)) >= n + 1
      BY <1>9, <2>4, <3>3, <3>5
    <3> QED BY <2>1, <2>3, <3>6
  <2> QED BY <2>5, <2>6
<1>12. k \in T
  <2> HIDE DEF T
  <2>1. 0..k \subseteq T
    BY <1>1, <1>10, <1>11, SetInduction
  <2> QED BY <1>1, <2>1
<1>13. Done(k) = 1..k
  <2>1. Done(k) \in SUBSET (1..k)
    OBVIOUS
  <2>2. CASE Cardinality(Done(k)) >= k
    <3> HIDE DEF Done
    <3>1. Cardinality(Done(k)) <= k /\ (Cardinality(Done(k)) = k => Done(k) = 1..k)
      BY <1>1, <2>1, PartOfInterval
    <3> QED BY <1>1, <1>9, <2>1, <2>2, <3>1
  <2> QED BY <1>12, <2>2
<1> QED BY <1>1, <1>6, <1>13

(***************************************************************************)
(* The invariant                                                           *)
(***************************************************************************)
StepMaps == {<<>>} \cup {Steps(task) : task \in Tasks}
PlanRow ==
  [status : {"ACTIVE", "DONE", "FAILED", "SUPERSEDED"}, version : Nat, replaces : Nat,
   tasks : Seq(Tasks), deps : Seq(SUBSET Nat), st : Seq(TaskStatuses), result : SUBSET Nat,
   external : BOOLEAN, steps : Seq(StepMaps)]

\* A row describes one graph, that holds, of tasks that own their paths.
Shaped(p) ==
  /\ Len(p.deps) = Len(p.tasks) /\ Len(p.st) = Len(p.tasks) /\ Len(p.steps) = Len(p.tasks)
  /\ IsGraph(p.deps, Len(p.tasks)) /\ p.result \subseteq 1..Len(p.tasks)
Sound(p) ==
  /\ Acyclic(p.deps) /\ PathsAreOwned(p.tasks)
  /\ \A t \in 1..Len(p.tasks) :
       p.steps[t] = <<>> \/ (p.steps[t] = Steps(p.tasks[t]) /\ ScopesHold(p.tasks[t]))

RowsOK ==
  /\ plans \in Seq(PlanRow)
  /\ \A n \in 1..Last : /\ Shaped(plans[n]) /\ Sound(plans[n])
                        /\ plans[n].version \in 1..n /\ plans[n].replaces \in 0..(n - 1)

\* A request builds a draft, then works on the plan it stored last, which replaces an earlier one.
Planned == pc = "idle" /\ outcome = "planned"
Later   == {"external", "supersede", "metadata", "carry", "result", "steps"}
JobOK ==
  /\ job \in [previous : 0..Last, invalid : SUBSET Names]
  /\ pc \in Later \/ Planned => Last # 0 /\ job.previous < Last
  /\ pc \in {"supersede", "metadata", "carry", "result"} => job.previous # 0
  /\ pc # "idle" => outcome = "none"

Drafted(d) ==
  /\ d.tasks \in Seq(Tasks) /\ d.deps \in Seq(SUBSET Nat) /\ Len(d.deps) = Len(d.tasks)
  /\ IsGraph(d.deps, Len(d.tasks))
DraftOK ==
  /\ pc = "graph"  => draft \in Prepared
  /\ pc = "create" => Drafted(draft)

\* The answers of the stages that are over, and of the one that is asked.
CountsOK ==
  /\ asked \in 0..MaxRepairs /\ repairs \in 0..MaxPlanRepairs /\ crashes \in 0..MaxCrashes
  /\ pc \in {"idle"} \cup Stages /\ outcome \in {"none", "planned", "rejected", "raised", "refused"}
  /\ answers \in Nat /\ answers <= (MaxRepairs + 1) * (1 + 2 * (MaxPlanRepairs + 1))
  /\ pc = "idle" => asked = 0 /\ repairs = 0
  /\ pc = "goal" => answers <= asked /\ repairs = 0
  /\ pc = "decompose" => answers <= (MaxRepairs + 1) * (2 * repairs + 1) + asked
  /\ pc = "graph" => answers <= (MaxRepairs + 1) * (2 * repairs + 1) + (MaxRepairs + 1) + asked

\* What the transactions that are over have left in the rows.
StoredOK ==
  /\ pc \in Later \ {"external"} \/ Planned => plans[Last].external
  /\ job.previous # 0 /\ (pc \in {"metadata", "carry", "result", "steps"} \/ Planned)
       => plans[job.previous].status = "SUPERSEDED"
  /\ job.previous # 0 /\ (pc \in {"carry", "result", "steps"} \/ Planned)
       => /\ plans[Last].replaces = job.previous
          /\ plans[Last].version = plans[job.previous].version + 1
  /\ Planned => \A t \in 1..Len(plans[Last].tasks) : DOMAIN plans[Last].steps[t] # {}

\* The statuses of the last plan's tasks: fresh, being carried over, as carried over.
Fresh == \A t \in 1..Len(plans[Last].tasks) : plans[Last].st[t] = "PENDING"
CarryOK ==
  /\ pc \in {"external", "supersede", "metadata"} => Fresh
  /\ pc \in {"carry", "result"} =>
       \A t \in 1..Len(plans[Last].tasks) : plans[Last].st[t] \in {"PENDING", NewStatus(t)}
  /\ job.previous # 0 /\ (pc = "steps" \/ Planned) =>
       \A t \in 1..Len(plans[Last].tasks) : plans[Last].st[t] = NewStatus(t)
  /\ job.previous = 0 /\ (pc = "steps" \/ (Planned /\ plans[Last].status = "ACTIVE")) => Fresh
  /\ pc \in {"carry", "steps"} \/ Planned =>
       \A t \in 1..Len(plans[Last].tasks) : plans[Last].st[t] = "DONE" => t \in plans[Last].result

PlannerInv == RowsOK /\ JobOK /\ DraftOK /\ CountsOK /\ StoredOK /\ CarryOK

(***************************************************************************)
(* What the draft is                                                       *)
(***************************************************************************)
\* The tasks of an answer, without the requirements that are keys, are tasks.
LEMMA NormalizedTasks ==
  ASSUME NEW raw \in Seq(Tasks)
  PROVE  Normalized(raw) \in Seq(Tasks) /\ Len(Normalized(raw)) = Len(raw)
<1>1. Len(raw) \in Nat /\ DOMAIN raw = 1..Len(raw)
  OBVIOUS
<1>2. ASSUME NEW i \in 1..Len(raw)
      PROVE  [raw[i] EXCEPT !.requires = {n \in @ : Siblings(raw, i, n) = {}}] \in Tasks
  <2> DEFINE kept == {n \in raw[i].requires : Siblings(raw, i, n) = {}}
  <2>1. raw[i] \in Tasks
    OBVIOUS
  <2>2. kept \in SUBSET Names
    BY <2>1 DEF Tasks
  <2>3. [raw[i] EXCEPT !.requires = kept] \in Tasks
    <3> HIDE DEF kept
    <3> QED BY <2>1, <2>2 DEF Tasks
  <2> QED BY <2>3
<1>3. Normalized(raw) \in [1..Len(raw) -> Tasks]
  BY <1>1, <1>2 DEF Normalized
<1> QED BY <1>1, <1>3

\* What follows from the contracts, and what comes from keys, are tasks of the answer.
LEMMA EdgesAreTasks ==
  ASSUME NEW raw \in Seq(Tasks)
  PROVE  /\ KeyEdges(raw) \in [1..Len(raw) -> SUBSET (1..Len(raw))]
         /\ Inferred(raw) \in [1..Len(raw) -> SUBSET (1..Len(raw))]
<1>1. Len(raw) \in Nat /\ DOMAIN raw = 1..Len(raw)
  OBVIOUS
<1>2. ASSUME NEW i \in 1..Len(raw)
      PROVE  UNION {Siblings(raw, i, n) : n \in raw[i].requires} \subseteq 1..Len(raw)
  BY <1>1 DEF Siblings
<1>3. ASSUME NEW i \in 1..Len(raw)
      PROVE  {m[1] : m \in UNION {Makers(raw, i, n) : n \in raw[i].requires}} \subseteq 1..Len(raw)
  <2>1. ASSUME NEW n, NEW m \in Makers(raw, i, n) PROVE m[1] \in 1..Len(raw)
    BY <1>1, <2>1 DEF Makers
  <2> QED BY <2>1
<1> QED BY <1>1, <1>2, <1>3 DEF KeyEdges, Inferred

\* A function from the tasks 1..k to sets of them is a sequence of sets of numbers.
LEMMA GraphIsSeq ==
  ASSUME NEW k \in Nat, NEW deps \in [1..k -> SUBSET (1..k)]
  PROVE  deps \in Seq(SUBSET Nat) /\ Len(deps) = k
<1>1. deps \in [1..k -> SUBSET Nat]
  OBVIOUS
<1>2. deps \in Seq(SUBSET Nat)
  BY <1>1
<1> QED BY <1>2

\* A draft that waits for its graph is a list of tasks and the edges that `requires' named.
LEMMA PreparedIsDrafted ==
  ASSUME NEW d \in Prepared
  PROVE  d.tasks \in Seq(Tasks) /\ d.deps \in [1..Len(d.tasks) -> SUBSET (1..Len(d.tasks))]
<1>1. PICK raw \in Components : d = [tasks |-> Normalized(raw), deps |-> KeyEdges(raw)]
  BY DEF Prepared
<1>2. raw \in Seq(Tasks)
  BY ComponentAssumption
<1>3. Normalized(raw) \in Seq(Tasks) /\ Len(Normalized(raw)) = Len(raw)
  BY <1>2, NormalizedTasks
<1>4. KeyEdges(raw) \in [1..Len(raw) -> SUBSET (1..Len(raw))]
  BY <1>2, EdgesAreTasks
<1> QED BY <1>1, <1>3, <1>4

\* With a graph merged into it, it is a draft that may be stored.
LEMMA AcceptedIsDrafted ==
  ASSUME NEW d \in Prepared, NEW deps \in [DOMAIN d.tasks -> SUBSET DOMAIN d.tasks], Accepts(d, deps)
  PROVE  Drafted(draft)'
<1> DEFINE k == Len(d.tasks)
<1>1. /\ d.tasks \in Seq(Tasks) /\ d.deps \in [1..k -> SUBSET (1..k)]
      /\ k \in Nat /\ DOMAIN d.tasks = 1..k
  BY PreparedIsDrafted
<1>2. draft' = [tasks |-> d.tasks, deps |-> Merged(deps, d.deps)]
  BY DEF Accepts
<1>3. Merged(deps, d.deps) \in [1..k -> SUBSET (1..k)]
  <2>1. deps \in [1..k -> SUBSET (1..k)]
    BY <1>1
  <2>2. \A i \in 1..k : deps[i] \cup d.deps[i] \in SUBSET (1..k)
    BY <1>1, <2>1
  <2> QED BY <2>1, <2>2 DEF Merged
<1>4. draft'.tasks = d.tasks /\ draft'.deps = Merged(deps, d.deps) /\ Len(d.tasks) = k
  BY <1>2
<1> HIDE DEF k
<1>5. Merged(deps, d.deps) \in Seq(SUBSET Nat) /\ Len(Merged(deps, d.deps)) = k
  BY <1>1, <1>3, GraphIsSeq
<1> QED BY <1>1, <1>3, <1>4, <1>5 DEF Drafted, IsGraph

\* The graph of the contracts is one of the tasks.
LEMMA InferredIsGraph ==
  ASSUME NEW d \in Prepared PROVE Inferred(d.tasks) \in [DOMAIN d.tasks -> SUBSET DOMAIN d.tasks]
<1>1. d.tasks \in Seq(Tasks)
  BY PreparedIsDrafted
<1>2. Inferred(d.tasks) \in [1..Len(d.tasks) -> SUBSET (1..Len(d.tasks))]
  BY <1>1, EdgesAreTasks
<1> QED BY <1>1, <1>2

(***************************************************************************)
(* What each transaction does to the rows                                  *)
(***************************************************************************)
\* Row n becomes r, and the others stay.
Becomes(n, r) ==
  /\ plans' \in Seq(PlanRow) /\ Len(plans') = Len(plans) /\ plans'[n] = r
  /\ \A m \in 1..Last : m # n => plans'[m] = plans[m]

\* A row of the right type may replace a row.
LEMMA RowUpdate ==
  ASSUME RowsOK, NEW n \in 1..Last, NEW r \in PlanRow, plans' = [plans EXCEPT ![n] = r]
  PROVE  Becomes(n, r)
BY DEF RowsOK, Becomes, Last

\* The last row is one of the rows.
LEMMA LastIsRow == ASSUME RowsOK, Last # 0 PROVE Last \in 1..Last /\ Last \in Nat
BY DEF RowsOK, Last

\* A value of a sequence may be replaced.
LEMMA SeqUpdate ==
  ASSUME NEW S, NEW s \in Seq(S), NEW i \in 1..Len(s), NEW x \in S
  PROVE  /\ [s EXCEPT ![i] = x] \in Seq(S) /\ Len([s EXCEPT ![i] = x]) = Len(s)
         /\ [s EXCEPT ![i] = x][i] = x
         /\ \A j \in 1..Len(s) : j # i => [s EXCEPT ![i] = x][j] = s[j]
OBVIOUS

\* The row of a new plan: every task PENDING, nothing external, no steps.
LEMMA CreateEffect ==
  ASSUME RowsOK, Drafted(draft), plans' = Append(plans, Row(draft))
  PROVE  /\ plans' \in Seq(PlanRow) /\ Len(plans') = Last + 1 /\ Last \in Nat
         /\ \A m \in 1..Last : plans'[m] = plans[m]
         /\ LET r == plans'[Last + 1] IN
              /\ r.tasks = draft.tasks /\ r.deps = draft.deps /\ r.version = 1 /\ r.replaces = 0
              /\ Len(r.st) = Len(r.tasks) /\ Len(r.steps) = Len(r.tasks) /\ r.result = {}
              /\ \A t \in 1..Len(r.tasks) : r.st[t] = "PENDING" /\ r.steps[t] = <<>>
<1> DEFINE k == Len(draft.tasks)
           sts == [t \in DOMAIN draft.tasks |-> "PENDING"]
           nos == [t \in DOMAIN draft.tasks |-> <<>>]
<1>1. k \in Nat /\ DOMAIN draft.tasks = 1..k
  BY DEF Drafted
<1>2. sts \in Seq(TaskStatuses) /\ Len(sts) = k
  <2>1. sts \in [1..k -> TaskStatuses]
    BY <1>1 DEF TaskStatuses
  <2>2. sts \in Seq(TaskStatuses)
    BY <1>1, <2>1
  <2> QED BY <1>1, <2>1, <2>2
<1>3. nos \in Seq(StepMaps) /\ Len(nos) = k
  <2>1. nos \in [1..k -> StepMaps]
    BY <1>1 DEF StepMaps
  <2>2. nos \in Seq(StepMaps)
    BY <1>1, <2>1
  <2> QED BY <1>1, <2>1, <2>2
<1>4. \A t \in 1..k : sts[t] = "PENDING" /\ nos[t] = <<>>
  BY <1>1
<1>5. Row(draft) = [status |-> "ACTIVE", version |-> 1, replaces |-> 0, tasks |-> draft.tasks, deps |-> draft.deps,
                    st |-> sts, result |-> {}, external |-> FALSE, steps |-> nos]
  BY DEF Row
<1> HIDE DEF sts, nos, k
<1>6. Row(draft) \in PlanRow
  BY <1>2, <1>3, <1>5 DEF PlanRow, Drafted
<1>7. /\ plans' \in Seq(PlanRow) /\ Len(plans') = Last + 1 /\ Last \in Nat /\ plans'[Last + 1] = Row(draft)
      /\ \A m \in 1..Last : plans'[m] = plans[m]
  <2> HIDE DEF Drafted
  <2>1. plans \in Seq(PlanRow)
    BY DEF RowsOK
  <2> QED BY <1>6, <2>1 DEF Last
<1>8. /\ Row(draft).tasks = draft.tasks /\ Row(draft).deps = draft.deps /\ Row(draft).version = 1
      /\ Row(draft).replaces = 0 /\ Row(draft).st = sts /\ Row(draft).result = {} /\ Row(draft).steps = nos
  BY <1>5
<1> QED BY <1>2, <1>3, <1>4, <1>7, <1>8 DEF k

\* The transactions that set columns of the plan.
LEMMA ExternalEffect ==
  ASSUME RowsOK, Last # 0, External
  PROVE  \E r : /\ Becomes(Last, r) /\ r.external /\ r.status = plans[Last].status
                /\ r.version = plans[Last].version /\ r.replaces = plans[Last].replaces
                /\ r.tasks = plans[Last].tasks /\ r.deps = plans[Last].deps /\ r.st = plans[Last].st
                /\ r.result = plans[Last].result /\ r.steps = plans[Last].steps
<1> DEFINE p == plans[Last]
           r == [p EXCEPT !.external = TRUE]
<1>1. Last \in 1..Last /\ p \in PlanRow
  BY LastIsRow DEF RowsOK, Last
<1>2. plans' = [plans EXCEPT ![Last] = r]
  BY DEF External
<1> HIDE DEF p
<1>3. r \in PlanRow
  BY <1>1 DEF PlanRow
<1>4. /\ r.external /\ r.status = p.status /\ r.version = p.version /\ r.replaces = p.replaces
      /\ r.tasks = p.tasks /\ r.deps = p.deps /\ r.st = p.st /\ r.result = p.result /\ r.steps = p.steps
  BY <1>1 DEF PlanRow
<1> HIDE DEF r
<1> QED BY <1>1, <1>2, <1>3, <1>4, RowUpdate DEF p

\* The plan that is replaced only changes its status.
LEMMA SupersedeEffect ==
  ASSUME RowsOK, job.previous \in 1..Last, Supersede
  PROVE  \E r : /\ Becomes(job.previous, r) /\ r.status = "SUPERSEDED"
                /\ r = [plans[job.previous] EXCEPT !.status = r.status]
                /\ r.version = plans[job.previous].version /\ r.replaces = plans[job.previous].replaces
                /\ r.tasks = plans[job.previous].tasks /\ r.deps = plans[job.previous].deps
                /\ r.st = plans[job.previous].st /\ r.result = plans[job.previous].result
                /\ r.steps = plans[job.previous].steps /\ r.external = plans[job.previous].external
<1> DEFINE p == plans[job.previous]
           r == [p EXCEPT !.status = "SUPERSEDED"]
<1>1. p \in PlanRow
  BY DEF RowsOK, Last
<1>2. plans' = [plans EXCEPT ![job.previous] = r]
  BY DEF Supersede
<1> HIDE DEF p
<1>3. r \in PlanRow
  BY <1>1 DEF PlanRow
<1>4. /\ r.external = p.external /\ r.status = "SUPERSEDED" /\ r.version = p.version /\ r.replaces = p.replaces
      /\ r.tasks = p.tasks /\ r.deps = p.deps /\ r.st = p.st /\ r.result = p.result /\ r.steps = p.steps
  BY <1>1 DEF PlanRow
<1>5. r = [p EXCEPT !.status = r.status]
  BY <1>4
<1> HIDE DEF r
<1> QED BY <1>2, <1>3, <1>4, <1>5, RowUpdate DEF p

\* The revision gets the version after the one it replaces.
LEMMA MetadataEffect ==
  ASSUME RowsOK, Last # 0, job.previous \in 1..Last, Metadata
  PROVE  \E r : /\ Becomes(Last, r) /\ r.version = plans[job.previous].version + 1
                /\ r.replaces = job.previous /\ r.status = plans[Last].status
                /\ r.tasks = plans[Last].tasks /\ r.deps = plans[Last].deps /\ r.st = plans[Last].st
                /\ r.result = plans[Last].result /\ r.steps = plans[Last].steps
                /\ r.external = plans[Last].external
<1> DEFINE p == plans[Last]
           v == plans[job.previous].version + 1
           q == [p EXCEPT !.version = v]
           r == [q EXCEPT !.replaces = job.previous]
<1>1. Last \in 1..Last /\ p \in PlanRow
  BY LastIsRow DEF RowsOK, Last
<1>2. v \in Nat /\ job.previous \in Nat
  <2>1. plans[job.previous] \in PlanRow /\ job.previous \in Nat
    BY DEF RowsOK, Last
  <2>2. plans[job.previous].version \in Nat
    BY <2>1 DEF PlanRow
  <2> QED BY <2>1, <2>2
<1>3. plans' = [plans EXCEPT ![Last] = r]
  <2>1. plans' = [[plans EXCEPT ![Last].version = v] EXCEPT ![Last].replaces = job.previous]
    BY DEF Metadata, Revision, Version, Old
  <2>2. DOMAIN plans = 1..Last
    BY DEF RowsOK, Last
  <2> HIDE DEF v
  <2> QED BY <1>1, <2>1, <2>2
<1> HIDE DEF p, v
<1>4. q \in PlanRow
  BY <1>1, <1>2 DEF PlanRow
<1>5. /\ q.external = p.external /\ q.status = p.status /\ q.version = v
      /\ q.tasks = p.tasks /\ q.deps = p.deps /\ q.st = p.st /\ q.result = p.result /\ q.steps = p.steps
  BY <1>1 DEF PlanRow
<1> HIDE DEF q
<1>6. r \in PlanRow
  BY <1>2, <1>4 DEF PlanRow
<1>7. /\ r.external = q.external /\ r.status = q.status /\ r.version = q.version /\ r.replaces = job.previous
      /\ r.tasks = q.tasks /\ r.deps = q.deps /\ r.st = q.st /\ r.result = q.result /\ r.steps = q.steps
  BY <1>4 DEF PlanRow
<1> HIDE DEF r
<1> QED BY <1>1, <1>3, <1>5, <1>6, <1>7, RowUpdate DEF p, v

\* The task that is taken is one of them.
LEMMA FirstIsTask == ASSUME NEW ts \in SUBSET Nat, ts # {} PROVE First(ts) \in ts
<1>1. \E t \in ts : \A u \in ts : t <= u
  BY LeastElement
<1> QED BY <1>1 DEF First

\* The status a task of a revision gets.
LEMMA NewStatusIs == ASSUME NEW t PROVE NewStatus(t) \in {"DONE", "SUPERSEDED", "PENDING"}
BY DEF NewStatus

\* One task of the revision gets its status, and a task that is DONE is given a result next.
LEMMA CarryEffect ==
  ASSUME RowsOK, Last # 0, Carry, Uncarried # {}
  PROVE  \E t \in Uncarried : \E r :
           /\ t \in 1..Len(plans[Last].tasks) /\ Becomes(Last, r)
           /\ pc' = (IF NewStatus(t) = "DONE" THEN "result" ELSE "carry")
           /\ Len(r.st) = Len(plans[Last].st) /\ r.st[t] = NewStatus(t)
           /\ \A u \in 1..Len(plans[Last].tasks) : u # t => r.st[u] = plans[Last].st[u]
           /\ r.version = plans[Last].version /\ r.replaces = plans[Last].replaces
           /\ r.status = plans[Last].status /\ r.tasks = plans[Last].tasks /\ r.deps = plans[Last].deps
           /\ r.result = plans[Last].result /\ r.steps = plans[Last].steps
           /\ r.external = plans[Last].external
<1> DEFINE p == plans[Last]
           t == First(Uncarried)
           w == NewStatus(t)
           s == [p.st EXCEPT ![t] = w]
           r == [p EXCEPT !.st = s]
<1>1. Last \in 1..Last /\ p \in PlanRow /\ Shaped(p)
  BY LastIsRow DEF RowsOK, Last
<1>2. p.st \in Seq(TaskStatuses) /\ p.tasks \in Seq(Tasks) /\ Len(p.st) = Len(p.tasks) /\ Len(p.tasks) \in Nat
  BY <1>1 DEF PlanRow, Shaped
<1>3. t \in Uncarried /\ t \in 1..Len(p.st)
  <2>1. Uncarried \subseteq 1..Len(p.st)
    BY <1>2 DEF Uncarried, Plan
  <2>2. Uncarried \in SUBSET Nat
    BY <1>2, <2>1
  <2>3. t \in Uncarried
    BY <2>2, FirstIsTask
  <2> QED BY <2>1, <2>3
<1>4. w \in TaskStatuses
  BY NewStatusIs DEF TaskStatuses
<1>5. /\ plans' = [plans EXCEPT ![Last].st[t] = w]
      /\ pc' = (IF w = "DONE" THEN "result" ELSE "carry")
  BY DEF Carry, Enter
<1> HIDE DEF w, t
<1>6. plans' = [plans EXCEPT ![Last] = r]
  BY <1>5
<1>7. s \in Seq(TaskStatuses) /\ Len(s) = Len(p.st) /\ s[t] = w /\ \A u \in 1..Len(p.st) : u # t => s[u] = p.st[u]
  <2> HIDE DEF p
  <2> QED BY <1>2, <1>3, <1>4, SeqUpdate
<1> HIDE DEF s, p
<1>8. r \in PlanRow
  BY <1>1, <1>7 DEF PlanRow
<1>9. /\ r.external = p.external /\ r.status = p.status /\ r.version = p.version /\ r.replaces = p.replaces
      /\ r.tasks = p.tasks /\ r.deps = p.deps /\ r.st = s /\ r.result = p.result /\ r.steps = p.steps
  BY <1>1 DEF PlanRow
<1> HIDE DEF r
<1>10. Becomes(Last, r)
  BY <1>1, <1>6, <1>8, RowUpdate
<1>11. w = NewStatus(t)
  BY DEF w
<1> QED BY <1>2, <1>3, <1>5, <1>7, <1>9, <1>10, <1>11 DEF p

\* The tasks that are DONE get a result.
LEMMA ResultEffect ==
  ASSUME RowsOK, Last # 0, Result
  PROVE  \E r : /\ Becomes(Last, r)
                /\ r.result = plans[Last].result
                     \cup {t \in 1..Len(plans[Last].tasks) : plans[Last].st[t] = "DONE"}
                /\ r.version = plans[Last].version /\ r.replaces = plans[Last].replaces
                /\ r.status = plans[Last].status /\ r.tasks = plans[Last].tasks /\ r.deps = plans[Last].deps
                /\ r.st = plans[Last].st /\ r.steps = plans[Last].steps
                /\ r.external = plans[Last].external
<1> DEFINE p == plans[Last]
           done == {t \in 1..Len(p.tasks) : p.st[t] = "DONE"}
           s == p.result \cup done
           r == [p EXCEPT !.result = s]
<1>1. Last \in 1..Last /\ p \in PlanRow
  BY LastIsRow DEF RowsOK, Last
<1>2. DOMAIN p.tasks = 1..Len(p.tasks) /\ p.result \in SUBSET Nat /\ Len(p.tasks) \in Nat
  BY <1>1 DEF PlanRow
<1>3. plans' = [plans EXCEPT ![Last] = r]
  BY <1>2 DEF Result, Plan
<1>4. s \in SUBSET Nat
  BY <1>2
<1>5. s = p.result \cup {t \in 1..Len(p.tasks) : p.st[t] = "DONE"}
  OBVIOUS
<1> HIDE DEF s, p
<1>6. r \in PlanRow
  BY <1>1, <1>4 DEF PlanRow
<1>7. /\ r.external = p.external /\ r.status = p.status /\ r.version = p.version /\ r.replaces = p.replaces
      /\ r.tasks = p.tasks /\ r.deps = p.deps /\ r.st = p.st /\ r.result = s /\ r.steps = p.steps
  BY <1>1 DEF PlanRow
<1> HIDE DEF r
<1>8. Becomes(Last, r)
  BY <1>1, <1>3, <1>6, RowUpdate
<1> QED BY <1>5, <1>7, <1>8 DEF p

\* A task has steps, and what they own is what a row may hold.
LEMMA StepsOfTask == ASSUME NEW task \in Tasks PROVE Steps(task) \in StepMaps /\ DOMAIN Steps(task) # {}
<1>1. Steps(task) \in StepMaps
  BY DEF StepMaps
<1>2. CASE task.paths # {}
  <2>1. Steps(task) = [p \in task.paths |-> {p}]
    BY <1>2 DEF Steps
  <2> QED BY <1>1, <1>2, <2>1
<1>3. CASE task.paths = {} /\ task.steps = <<>>
  <2>1. Steps(task) = <<{}>>
    BY <1>3 DEF Steps
  <2>2. 1 \in DOMAIN <<{}>>
    OBVIOUS
  <2> QED BY <1>1, <2>1, <2>2
<1>4. CASE task.paths = {} /\ task.steps # <<>>
  <2>1. task.steps \in Seq(StepRecords)
    BY DEF Tasks
  <2>2. DOMAIN task.steps # {}
    <3>1. Len(task.steps) # 0 /\ Len(task.steps) \in Nat /\ DOMAIN task.steps = 1..Len(task.steps)
      BY <1>4, <2>1, EmptySeq
    <3> QED BY <3>1
  <2>3. Steps(task) = [k \in DOMAIN task.steps |-> task.steps[k].paths]
    BY <1>4 DEF Steps
  <2> QED BY <1>1, <2>2, <2>3
<1> QED BY <1>1, <1>2, <1>3, <1>4

\* The next task whose steps are stored may have the steps it declares.
Scoped == ScopesHold(plans[Last].tasks[First(Stepless)])

\* A task that has no steps gets all of them at once.
LEMMA StepsEffect ==
  ASSUME RowsOK, Last # 0, CreateSteps, Stepless # {}, Scoped
  PROVE  \E t \in 1..Len(plans[Last].tasks) : \E r :
           /\ ScopesHold(plans[Last].tasks[t])
           /\ Becomes(Last, r) /\ pc' = "steps" /\ outcome' = outcome
           /\ Len(r.steps) = Len(plans[Last].steps) /\ r.steps[t] = Steps(plans[Last].tasks[t])
           /\ \A u \in 1..Len(plans[Last].tasks) : u # t => r.steps[u] = plans[Last].steps[u]
           /\ r.version = plans[Last].version /\ r.replaces = plans[Last].replaces
           /\ r.status = plans[Last].status /\ r.tasks = plans[Last].tasks /\ r.deps = plans[Last].deps
           /\ r.result = plans[Last].result /\ r.st = plans[Last].st
           /\ r.external = plans[Last].external
<1> DEFINE p == plans[Last]
           t == First(Stepless)
           w == Steps(p.tasks[t])
           s == [p.steps EXCEPT ![t] = w]
           r == [p EXCEPT !.steps = s]
<1>1. Last \in 1..Last /\ p \in PlanRow /\ Shaped(p)
  BY LastIsRow DEF RowsOK, Last
<1>2. /\ p.steps \in Seq(StepMaps) /\ p.tasks \in Seq(Tasks)
      /\ Len(p.steps) = Len(p.tasks) /\ Len(p.tasks) \in Nat
  BY <1>1 DEF PlanRow, Shaped
<1>3. t \in 1..Len(p.tasks)
  <2>1. Stepless \subseteq 1..Len(p.tasks)
    BY <1>2 DEF Stepless, Plan
  <2>2. Stepless \in SUBSET Nat
    BY <1>2, <2>1
  <2>3. t \in Stepless
    BY <2>2, FirstIsTask
  <2> QED BY <2>1, <2>3
<1>4. w \in StepMaps
  <2>1. p.tasks[t] \in Tasks
    BY <1>2, <1>3
  <2> QED BY <2>1, StepsOfTask
<1>5. plans' = [plans EXCEPT ![Last].steps[t] = w] /\ pc' = "steps" /\ outcome' = outcome
  BY DEF CreateSteps, Enter, Plan, Scoped
<1>6. w = Steps(p.tasks[t]) /\ ScopesHold(p.tasks[t])
  BY DEF Scoped
<1> HIDE DEF w, t
<1>7. plans' = [plans EXCEPT ![Last] = r]
  BY <1>5
<1>8. s \in Seq(StepMaps) /\ Len(s) = Len(p.steps) /\ s[t] = w
      /\ \A u \in 1..Len(p.tasks) : u # t => s[u] = p.steps[u]
  <2> HIDE DEF p
  <2> QED BY <1>2, <1>3, <1>4, SeqUpdate
<1> HIDE DEF s, p
<1>9. r \in PlanRow
  BY <1>1, <1>8 DEF PlanRow
<1>10. /\ r.external = p.external /\ r.status = p.status /\ r.version = p.version /\ r.replaces = p.replaces
       /\ r.tasks = p.tasks /\ r.deps = p.deps /\ r.st = p.st /\ r.result = p.result /\ r.steps = s
  BY <1>1 DEF PlanRow
<1> HIDE DEF r
<1>11. Becomes(Last, r)
  BY <1>1, <1>7, <1>9, RowUpdate
<1> QED BY <1>3, <1>5, <1>6, <1>8, <1>10, <1>11 DEF p

\* What a refresh makes of the tasks: only what was DONE is.
LEMMA RefreshedIs ==
  ASSUME NEW deps, NEW k \in Nat, NEW s \in [1..k -> TaskStatuses]
  PROVE  /\ Refreshed(deps, s) \in [1..k -> TaskStatuses]
         /\ \A t \in 1..k : Refreshed(deps, s)[t] = "DONE" => s[t] = "DONE"
<1>1. DOMAIN s = 1..k
  OBVIOUS
<1>2. ASSUME NEW t \in 1..k
      PROVE  /\ CalculatedStatus(deps, s, t) \in {"BLOCKED", "READY", "PENDING"}
  BY DEF CalculatedStatus
<1>3. \A t \in 1..k : Refreshed(deps, s)[t] = IF s[t] \in ActiveStatuses \cup TerminalStatuses THEN s[t]
                                               ELSE CalculatedStatus(deps, s, t)
  BY <1>1 DEF Refreshed
<1>4. Refreshed(deps, s) = [t \in 1..k |-> IF s[t] \in ActiveStatuses \cup TerminalStatuses THEN s[t]
                                               ELSE CalculatedStatus(deps, s, t)]
  BY <1>1 DEF Refreshed
<1>5. \A t \in 1..k : Refreshed(deps, s)[t] \in TaskStatuses
  BY <1>2, <1>3 DEF TaskStatuses
<1>6. \A t \in 1..k : Refreshed(deps, s)[t] = "DONE" => s[t] = "DONE"
  BY <1>2, <1>3
<1> HIDE DEF Refreshed
<1> QED BY <1>4, <1>5, <1>6

\* A run leaves a result for every task that is DONE, and ends the plan.
LEMMA WorkEffect ==
  ASSUME RowsOK, Last # 0, Work, Fresh
  PROVE  \E r : /\ Becomes(Last, r) /\ r.status \in {"DONE", "FAILED"}
                /\ Len(r.st) = Len(plans[Last].st) /\ r.result \subseteq 1..Len(plans[Last].tasks)
                /\ \A t \in 1..Len(plans[Last].tasks) : r.st[t] = "DONE" => t \in r.result
                /\ r.version = plans[Last].version /\ r.replaces = plans[Last].replaces
                /\ r.tasks = plans[Last].tasks /\ r.deps = plans[Last].deps
                /\ r.steps = plans[Last].steps /\ r.external = plans[Last].external
<1> DEFINE p == plans[Last]
           k == Len(p.tasks)
<1>1. Last \in 1..Last /\ p \in PlanRow /\ Shaped(p)
  BY LastIsRow DEF RowsOK, Last
<1>2. p.st \in Seq(TaskStatuses) /\ p.tasks \in Seq(Tasks) /\ Len(p.st) = k /\ k \in Nat
  BY <1>1 DEF PlanRow, Shaped
<1>3. PICK done \in SUBSET DOMAIN Plan(Last).tasks :
        plans' = [plans EXCEPT
            ![Last].status = IF done = DOMAIN Plan(Last).tasks THEN "DONE" ELSE "FAILED",
            ![Last].st = Refreshed(Plan(Last).deps, [t \in DOMAIN @ |-> IF t \in done THEN "DONE" ELSE @[t]]),
            ![Last].result = done]
  BY Zenon DEF Work
<1>31. done \in SUBSET (1..k)
  BY <1>2 DEF Plan
<1> DEFINE w == IF done = DOMAIN p.tasks THEN "DONE" ELSE "FAILED"
           a == [t \in DOMAIN p.st |-> IF t \in done THEN "DONE" ELSE p.st[t]]
           s == Refreshed(p.deps, a)
           r1 == [p EXCEPT !.status = w]
           r2 == [r1 EXCEPT !.st = s]
           r  == [r2 EXCEPT !.result = done]
<1>4. a \in [1..k -> TaskStatuses]
  BY <1>2 DEF TaskStatuses
<1>5. s \in [1..k -> TaskStatuses] /\ \A t \in 1..k : s[t] = "DONE" => a[t] = "DONE"
  <2> HIDE DEF a, k, p
  <2> QED BY <1>2, <1>4, RefreshedIs
<1>6. \A t \in 1..k : s[t] = "DONE" => t \in done
  <2>1. \A t \in 1..k : a[t] = "DONE" => t \in done
    BY <1>2 DEF Fresh
  <2> HIDE DEF s, a
  <2> QED BY <1>5, <2>1
<1>7. s \in Seq(TaskStatuses) /\ Len(s) = k
  <2> HIDE DEF s
  <2>1. s \in Seq(TaskStatuses)
    BY <1>2, <1>5
  <2> QED BY <1>2, <1>5, <2>1
<1>8. plans' = [plans EXCEPT ![Last] = r]
  <2>1. p.st = r1.st
    BY <1>1 DEF PlanRow
  <2>2. plans' = [[[plans EXCEPT ![Last].status = w] EXCEPT ![Last].st = s] EXCEPT ![Last].result = done]
    BY <1>3, <1>1, <2>1 DEF Plan, PlanRow
  <2>3. DOMAIN plans = 1..Last
    BY DEF RowsOK, Last
  <2> HIDE DEF s, w
  <2> QED BY <1>1, <2>2, <2>3
<1>9. w \in {"DONE", "FAILED"} /\ done \in SUBSET Nat
  BY <1>2, <1>31
<1> HIDE DEF w, s, a
<1> HIDE DEF p
<1>10. r1 \in PlanRow
  BY <1>1, <1>9 DEF PlanRow
<1>11. /\ r1.external = p.external /\ r1.status = w /\ r1.version = p.version /\ r1.replaces = p.replaces
       /\ r1.tasks = p.tasks /\ r1.deps = p.deps /\ r1.steps = p.steps
  BY <1>1 DEF PlanRow
<1> HIDE DEF r1
<1>12. r2 \in PlanRow
  BY <1>7, <1>10 DEF PlanRow
<1>13. /\ r2.external = r1.external /\ r2.status = w /\ r2.version = r1.version /\ r2.replaces = r1.replaces
       /\ r2.tasks = r1.tasks /\ r2.deps = r1.deps /\ r2.steps = r1.steps /\ r2.st = s
  BY <1>10, <1>11 DEF PlanRow
<1> HIDE DEF r2
<1>14. r \in PlanRow
  BY <1>9, <1>12 DEF PlanRow
<1>15. /\ r.external = r2.external /\ r.status = w /\ r.version = r2.version /\ r.replaces = r2.replaces
       /\ r.tasks = r2.tasks /\ r.deps = r2.deps /\ r.steps = r2.steps /\ r.st = s /\ r.result = done
  BY <1>12, <1>13 DEF PlanRow
<1> HIDE DEF r
<1>16. Becomes(Last, r)
  BY <1>1, <1>8, <1>14, RowUpdate
<1> QED BY <1>2, <1>31, <1>6, <1>7, <1>9, <1>11, <1>13, <1>15, <1>16 DEF p

(***************************************************************************)
(* The invariant is inductive                                              *)
(***************************************************************************)
\* The bounds are numbers.
LEMMA Numbers ==
  /\ MaxRepairs \in Nat /\ MaxPlanRepairs \in Nat /\ MaxPlans \in Nat /\ MaxCrashes \in Nat
BY RepairAssumption

\* The questions of one draft, and of one more.
LEMMA MoreQuestions ==
  ASSUME NEW a \in Nat, NEW b \in Nat, NEW n \in Nat, n <= b
  PROVE  /\ (a + 1) * (2 * (n + 1) + 1) = (a + 1) * (2 * n + 1) + (a + 1) + (a + 1)
         /\ (a + 1) * (2 * n + 1) + (a + 1) + (a + 1) <= (a + 1) * (1 + 2 * (b + 1))
         /\ (a + 1) * (2 * n + 1) \in Nat /\ (a + 1) * (1 + 2 * (b + 1)) \in Nat
         /\ (a + 1) * (2 * 0 + 1) = a + 1 /\ a + 1 <= (a + 1) * (1 + 2 * (b + 1))
<1>1. PICK d \in Nat : b = n + d
  <2>1. b - n \in Nat /\ b = n + (b - n)
    OBVIOUS
  <2> QED BY <2>1
<1>2. (a + 1) * d \in Nat /\ (a + 1) * n \in Nat /\ (a + 1) * b \in Nat
  OBVIOUS
<1>3. (a + 1) * (1 + 2 * (b + 1)) = (a + 1) * (2 * n + 1) + (a + 1) + (a + 1) + 2 * ((a + 1) * d)
  BY <1>1
<1>4. (a + 1) * (1 + 2 * (b + 1)) = 2 * ((a + 1) * b) + 3 * (a + 1)
  OBVIOUS
<1>5. (a + 1) * (2 * n + 1) = 2 * ((a + 1) * n) + (a + 1)
  OBVIOUS
<1>6. (a + 1) * (2 * (n + 1) + 1) = 2 * ((a + 1) * n) + 3 * (a + 1)
  OBVIOUS
<1> QED BY <1>2, <1>3, <1>4, <1>5, <1>6

\* The invariant holds of an empty project.
LEMMA InitHolds == Init => PlannerInv
<1>1. SUFFICES ASSUME Init PROVE PlannerInv
  OBVIOUS
<1>2. Last = 0 /\ plans = <<>> /\ pc = "idle" /\ outcome = "none" /\ job.previous = 0
  BY <1>1 DEF Init, Last, NewPlan
<1>3. RowsOK
  BY <1>2 DEF RowsOK
<1>4. JobOK
  BY <1>1, <1>2 DEF JobOK, Init, NewPlan, Planned, Later
<1>5. CountsOK
  <2>1. 0 <= (MaxRepairs + 1) * (1 + 2 * (MaxPlanRepairs + 1))
    BY Numbers, MoreQuestions, 0 <= MaxPlanRepairs
  <2> QED BY <1>1, <2>1, Numbers DEF CountsOK, Init, Stages
<1> QED BY <1>2, <1>3, <1>4, <1>5 DEF PlannerInv, DraftOK, StoredOK, CarryOK, Planned, Later

\* Every request begins with nothing asked, and every answer is one of the stage that is asked.
LEMMA CountsStep == ASSUME CountsOK, [Next]_vars PROVE CountsOK'
<1> DEFINE All == (MaxRepairs + 1) * (1 + 2 * (MaxPlanRepairs + 1))
<1> DEFINE Before == (MaxRepairs + 1) * (2 * repairs + 1)
<1> DEFINE BeforeNext == (MaxRepairs + 1) * (2 * repairs' + 1)
<1> USE Numbers
<1>0. /\ repairs \in Nat /\ repairs <= MaxPlanRepairs /\ asked \in Nat /\ asked <= MaxRepairs
      /\ answers \in Nat /\ answers <= All
  BY DEF CountsOK
<1>1. /\ (MaxRepairs + 1) * (2 * (repairs + 1) + 1) = Before + (MaxRepairs + 1) + (MaxRepairs + 1)
      /\ Before + (MaxRepairs + 1) + (MaxRepairs + 1) <= All
      /\ Before \in Nat /\ All \in Nat /\ (MaxRepairs + 1) * (2 * 0 + 1) = MaxRepairs + 1 /\ MaxRepairs + 1 <= All
  BY <1>0, MoreQuestions
<1>3. repairs = 0 => Before = MaxRepairs + 1
  BY <1>1
<1>4. repairs' = repairs + 1 => BeforeNext = Before + (MaxRepairs + 1) + (MaxRepairs + 1)
  BY <1>1
<1>5. repairs' = repairs => BeforeNext = Before
  OBVIOUS
<1>6. CountsOK' <=>
        /\ asked' \in 0..MaxRepairs /\ repairs' \in 0..MaxPlanRepairs /\ crashes' \in 0..MaxCrashes
        /\ pc' \in {"idle"} \cup Stages /\ outcome' \in {"none", "planned", "rejected", "raised", "refused"}
        /\ answers' \in Nat /\ answers' <= All
        /\ pc' = "idle" => asked' = 0 /\ repairs' = 0
        /\ pc' = "goal" => answers' <= asked' /\ repairs' = 0
        /\ pc' = "decompose" => answers' <= BeforeNext + asked'
        /\ pc' = "graph" => answers' <= BeforeNext + (MaxRepairs + 1) + asked'
  BY DEF CountsOK
<1>7. /\ asked \in 0..MaxRepairs /\ repairs \in 0..MaxPlanRepairs /\ crashes \in 0..MaxCrashes
      /\ pc \in {"idle"} \cup Stages /\ outcome \in {"none", "planned", "rejected", "raised", "refused"}
      /\ pc = "idle" => asked = 0 /\ repairs = 0
      /\ pc = "goal" => answers <= asked /\ repairs = 0
      /\ pc = "decompose" => answers <= Before + asked
      /\ pc = "graph" => answers <= Before + (MaxRepairs + 1) + asked
  BY DEF CountsOK
<1> HIDE DEF All, Before, BeforeNext
<1> USE DEF Stages, Asking
<1>2. ASSUME pc \in {"decompose", "graph"}, Replans, UNCHANGED crashes PROVE CountsOK'
  <2>1. answers' = answers + 1
    BY <1>2 DEF Replans, Counts
  <2>2. CASE repairs < MaxPlanRepairs
    BY <1>0, <1>1, <1>2, <1>4, <1>6, <1>7, <2>1, <2>2 DEF Replans
  <2>3. CASE ~(repairs < MaxPlanRepairs)
    BY <1>0, <1>1, <1>2, <1>6, <1>7, <2>1, <2>3 DEF Replans, Ends
  <2> QED BY <2>2, <2>3
<1>22. ASSUME NEW d, NEW deps, Accepts(d, deps), UNCHANGED crashes PROVE CountsOK'
  <2>1. pc' = "create" /\ asked' = 0 /\ answers' = 0 /\ UNCHANGED <<repairs, outcome>>
    BY <1>22 DEF Accepts
  <2> QED BY <1>0, <1>1, <1>6, <1>7, <1>22, <2>1
<1>23. ASSUME Raises, UNCHANGED crashes PROVE CountsOK'
  BY <1>0, <1>1, <1>6, <1>7, <1>23 DEF Raises, Ends
<1>8. CASE Request
  BY <1>0, <1>1, <1>6, <1>7, <1>8 DEF Request, Stages
<1>9. CASE Garbled
  <2>1. CASE Patience
    BY <1>0, <1>1, <1>3, <1>5, <1>6, <1>7, <1>9, <2>1 DEF Garbled, Patience, Counts
  <2>2. CASE ~Patience /\ pc # "graph"
    BY <1>0, <1>1, <1>3, <1>6, <1>7, <1>9, <2>2 DEF Garbled, Counts, Ends
  <2>3. CASE ~Patience /\ pc = "graph"
    BY <1>2, <1>9, <1>22, <2>3 DEF Garbled, FallsBack
  <2> QED BY <2>1, <2>2, <2>3
<1>10. CASE Goal
  BY <1>0, <1>1, <1>3, <1>5, <1>6, <1>7, <1>10 DEF Goal, Counts
<1>11. CASE Decompose
  <2>1. CASE pc' = "graph" /\ asked' = 0 /\ Counts /\ UNCHANGED <<repairs, outcome>>
    BY <1>0, <1>1, <1>5, <1>6, <1>7, <1>11, <2>1 DEF Decompose, Counts
  <2>2. CASE \E d \in Prepared : Accepts(d, Inferred(d.tasks))
    BY <1>11, <1>22, <2>2 DEF Decompose
  <2>3. CASE Raises
    BY <1>11, <1>23, <2>3 DEF Decompose
  <2>4. CASE Replans
    BY <1>2, <1>11, <2>4 DEF Decompose
  <2> QED BY <1>11, <2>1, <2>2, <2>3, <2>4 DEF Decompose
<1>24. CASE Graph
  BY <1>22, <1>24 DEF Graph
<1>12. CASE Create
  BY <1>0, <1>1, <1>6, <1>7, <1>12 DEF Create, Keep, Enter, Ends, Stages
<1>13. CASE External
  BY <1>0, <1>1, <1>6, <1>7, <1>13 DEF External, Keep, Enter, Stages
<1>14. CASE Supersede
  BY <1>0, <1>1, <1>6, <1>7, <1>14 DEF Supersede, Keep, Enter, Stages
<1>15. CASE Metadata
  BY <1>0, <1>1, <1>6, <1>7, <1>15 DEF Metadata, Keep, Enter, Stages
<1>16. CASE Carry
  <2>1. pc' \in {"steps", "result", "carry"} /\ UNCHANGED <<asked, repairs, draft, outcome, job, answers, crashes>>
    BY <1>16 DEF Carry, Keep, Enter
  <2> QED BY <1>0, <1>1, <1>6, <1>7, <2>1 DEF Stages
<1>17. CASE Result
  BY <1>0, <1>1, <1>6, <1>7, <1>17 DEF Result, Keep, Enter, Stages
<1>18. CASE CreateSteps
  <2>1. \/ pc' = "steps" /\ UNCHANGED <<asked, repairs, draft, outcome, job, answers, crashes>>
        \/ (Ends("planned") \/ Ends("raised")) /\ UNCHANGED <<job, answers, crashes>>
    BY <1>18 DEF CreateSteps, Keep, Enter
  <2> QED BY <1>0, <1>1, <1>6, <1>7, <2>1 DEF Stages, Ends
<1>19. CASE Work
  BY <1>0, <1>1, <1>5, <1>6, <1>7, <1>19 DEF Work, request, Stages
<1>20. CASE Crash
  BY <1>0, <1>1, <1>6, <1>7, <1>20 DEF Crash, Ends, Stages
<1>21. CASE Over \/ UNCHANGED vars
  BY <1>0, <1>1, <1>5, <1>6, <1>7, <1>21 DEF Over, vars, request
<1> QED BY <1>8, <1>9, <1>10, <1>11, <1>12, <1>13, <1>14, <1>15, <1>16, <1>17, <1>18, <1>19, <1>20, <1>21, <1>24 DEF Next

\* What a row that was changed must still be.
LEMMA RowsBecome ==
  ASSUME RowsOK, NEW n \in 1..Last, NEW r, Becomes(n, r), Shaped(r), Sound(r),
         r.version \in 1..n, r.replaces \in 0..(n - 1)
  PROVE  RowsOK' /\ Last' = Last
BY DEF RowsOK, Becomes, Last

\* A row whose graph is kept describes a graph.
LEMMA StillShaped ==
  ASSUME NEW p, NEW r, Shaped(p), r.tasks = p.tasks, r.deps = p.deps, Len(r.st) = Len(p.st),
         Len(r.steps) = Len(p.steps), r.result \subseteq 1..Len(p.tasks)
  PROVE  Shaped(r)
BY DEF Shaped

\* A row whose graph and steps are kept is sound.
LEMMA StillSound ==
  ASSUME NEW p, NEW r, Sound(p), r.tasks = p.tasks, r.deps = p.deps, r.steps = p.steps
  PROVE  Sound(r)
BY DEF Sound

\* A row that was changed without its graph and its steps.
LEMMA SameGraph ==
  ASSUME RowsOK, NEW n \in 1..Last, NEW r, Becomes(n, r), r.tasks = plans[n].tasks, r.deps = plans[n].deps,
         r.steps = plans[n].steps, Len(r.st) = Len(plans[n].st), r.result \subseteq 1..Len(plans[n].tasks),
         r.version \in 1..n, r.replaces \in 0..(n - 1)
  PROVE  RowsOK' /\ Last' = Last
<1>1. Shaped(plans[n]) /\ Sound(plans[n])
  BY DEF RowsOK
<1>2. Shaped(r) /\ Sound(r)
  BY <1>1, StillShaped, StillSound
<1> QED BY <1>2, RowsBecome

\* What is known of every row.
LEMMA RowFacts ==
  ASSUME RowsOK, NEW n \in 1..Last
  PROVE  /\ Shaped(plans[n]) /\ Sound(plans[n]) /\ plans[n].version \in 1..n /\ plans[n].replaces \in 0..(n - 1)
         /\ plans[n].result \subseteq 1..Len(plans[n].tasks) /\ plans[n] \in PlanRow
BY DEF RowsOK, Shaped, Last

\* The status a task gets follows from the tasks of the revision and of the plan it replaces.
LEMMA NewStatusSame ==
  ASSUME job' = job, Len(plans') = Len(plans), plans'[Last].tasks = plans[Last].tasks,
         plans'[job.previous].tasks = plans[job.previous].tasks,
         plans'[job.previous].st = plans[job.previous].st
  PROVE  \A t : NewStatus(t)' = NewStatus(t)
<1>1. Last' = Last
  BY DEF Last
<1>2. Plan(Last)'.tasks = Plan(Last).tasks /\ Old'.tasks = Old.tasks /\ Old'.st = Old.st
  BY <1>1 DEF Plan, Old
<1>3. \A key : Carried(key)' = Carried(key)
  BY <1>2 DEF Carried
<1> QED BY <1>2, <1>3 DEF NewStatus

\* Before its plan is stored, and when it ended badly, a request leaves the rows alone.
LEMMA QuietStep ==
  ASSUME RowsOK, UNCHANGED plans,
         pc' \in Asking \cup {"create"} \/ (pc' = "idle" /\ outcome' # "planned")
  PROVE  RowsOK' /\ StoredOK' /\ CarryOK'
<1>1. RowsOK'
  BY DEF RowsOK, Last
<1> QED BY <1>1 DEF StoredOK, CarryOK, Planned, Later, Asking

\* A plan that is stored is acyclic, owns its files once, and is fresh.
LEMMA CreateStep ==
  ASSUME PlannerInv, Create, Storable(draft) PROVE RowsOK' /\ StoredOK' /\ CarryOK' /\ Last' = Last + 1
<1>1. RowsOK /\ Drafted(draft) /\ pc' = "external" /\ plans' = Append(plans, Row(draft))
  BY DEF PlannerInv, DraftOK, Create, Enter
<1> DEFINE r == plans'[Last + 1]
<1>2. /\ plans' \in Seq(PlanRow) /\ Len(plans') = Last + 1 /\ Last \in Nat
      /\ \A m \in 1..Last : plans'[m] = plans[m]
      /\ r.tasks = draft.tasks /\ r.deps = draft.deps /\ r.version = 1 /\ r.replaces = 0
      /\ Len(r.st) = Len(r.tasks) /\ Len(r.steps) = Len(r.tasks) /\ r.result = {}
      /\ \A t \in 1..Len(r.tasks) : r.st[t] = "PENDING" /\ r.steps[t] = <<>>
  BY <1>1, CreateEffect
<1> HIDE DEF r
<1>3. Shaped(r)
  BY <1>1, <1>2 DEF Shaped, Drafted
<1>4. Sound(r)
  BY <1>2 DEF Sound, Storable, GraphHolds
<1>5. Last' = Last + 1
  BY <1>2 DEF Last
<1>6. RowsOK'
  <2>1. ASSUME NEW n \in 1..(Last + 1)
        PROVE  /\ Shaped(plans'[n]) /\ Sound(plans'[n])
               /\ plans'[n].version \in 1..n /\ plans'[n].replaces \in 0..(n - 1)
    <3>1. CASE n = Last + 1
      BY <1>2, <1>3, <1>4, <3>1 DEF r
    <3>2. CASE n # Last + 1
      BY <1>1, <1>2, <3>2 DEF RowsOK
    <3> QED BY <3>1, <3>2
  <2> QED BY <1>2, <1>5, <2>1 DEF RowsOK
<1>7. Fresh'
  BY <1>2, <1>5 DEF Fresh, r
<1>8. StoredOK' /\ CarryOK'
  BY <1>1, <1>7 DEF StoredOK, CarryOK, Planned, Later
<1> QED BY <1>5, <1>6, <1>8

\* The external resources of a plan are stored.
LEMMA ExternalStep ==
  ASSUME PlannerInv, External PROVE RowsOK' /\ StoredOK' /\ CarryOK' /\ Last' = Last
<1>1. /\ RowsOK /\ pc = "external" /\ job' = job /\ Last # 0 /\ Fresh
      /\ pc' = IF job.previous = 0 THEN "steps" ELSE "supersede"
  BY DEF PlannerInv, External, Enter, Keep, JobOK, Later, CarryOK
<1>2. PICK r : /\ Becomes(Last, r) /\ r.external /\ r.status = plans[Last].status
               /\ r.version = plans[Last].version /\ r.replaces = plans[Last].replaces
               /\ r.tasks = plans[Last].tasks /\ r.deps = plans[Last].deps /\ r.st = plans[Last].st
               /\ r.result = plans[Last].result /\ r.steps = plans[Last].steps
  BY <1>1, ExternalEffect
<1>3. Last \in 1..Last /\ plans[Last].version \in 1..Last /\ plans[Last].replaces \in 0..(Last - 1)
      /\ plans[Last].result \subseteq 1..Len(plans[Last].tasks)
  BY <1>1, LastIsRow, RowFacts
<1>4. RowsOK' /\ Last' = Last
  BY <1>1, <1>2, <1>3, SameGraph
<1>5. plans'[Last] = r /\ plans'[Last'] = r
  BY <1>2, <1>4 DEF Becomes
<1>6. Fresh'
  BY <1>1, <1>2, <1>5 DEF Fresh
<1>7. StoredOK'
  BY <1>1, <1>2, <1>5 DEF StoredOK, Planned, Later
<1>8. CarryOK'
  BY <1>1, <1>6 DEF CarryOK, Planned, Fresh
<1> QED BY <1>4, <1>7, <1>8

\* The plan that is replaced is SUPERSEDED, before the revision knows what it replaces.
LEMMA SupersedeStep ==
  ASSUME PlannerInv, Supersede PROVE RowsOK' /\ StoredOK' /\ CarryOK' /\ Last' = Last
<1>1. /\ RowsOK /\ pc = "supersede" /\ job' = job /\ Last # 0 /\ Fresh /\ pc' = "metadata"
      /\ job.previous \in 0..Last /\ job.previous # 0 /\ job.previous < Last /\ plans[Last].external
  BY DEF PlannerInv, Supersede, Enter, Keep, JobOK, Later, CarryOK, StoredOK
<1>2. job.previous \in 1..Last /\ Last \in 1..Last /\ Last # job.previous
  BY <1>1, LastIsRow
<1>3. PICK r : /\ Becomes(job.previous, r) /\ r.status = "SUPERSEDED"
               /\ r.version = plans[job.previous].version /\ r.replaces = plans[job.previous].replaces
               /\ r.tasks = plans[job.previous].tasks /\ r.deps = plans[job.previous].deps
               /\ r.st = plans[job.previous].st /\ r.result = plans[job.previous].result
               /\ r.steps = plans[job.previous].steps
  BY <1>1, <1>2, SupersedeEffect
<1>4. /\ plans[job.previous].version \in 1..job.previous /\ plans[job.previous].replaces \in 0..(job.previous - 1)
      /\ plans[job.previous].result \subseteq 1..Len(plans[job.previous].tasks)
  BY <1>1, <1>2, RowFacts
<1>5. RowsOK' /\ Last' = Last
  BY <1>1, <1>2, <1>3, <1>4, SameGraph
<1>6. plans'[Last'] = plans[Last] /\ plans'[job'.previous].status = "SUPERSEDED"
  BY <1>1, <1>2, <1>3, <1>5 DEF Becomes
<1>7. Fresh'
  BY <1>1, <1>6 DEF Fresh
<1>8. StoredOK'
  BY <1>1, <1>6 DEF StoredOK, Planned, Later
<1>9. CarryOK'
  BY <1>1, <1>7 DEF CarryOK, Planned, Fresh
<1> QED BY <1>5, <1>8, <1>9

\* The revision gets its version and the plan it replaces.
LEMMA MetadataStep ==
  ASSUME PlannerInv, Metadata PROVE RowsOK' /\ StoredOK' /\ CarryOK' /\ Last' = Last
<1>1. /\ RowsOK /\ pc = "metadata" /\ job' = job /\ Last # 0 /\ Fresh /\ pc' = "carry"
      /\ job.previous \in 0..Last /\ job.previous # 0 /\ job.previous < Last /\ plans[Last].external
      /\ plans[job.previous].status = "SUPERSEDED"
  BY DEF PlannerInv, Metadata, Enter, Keep, JobOK, Later, CarryOK, StoredOK
<1>2. job.previous \in 1..Last /\ Last \in 1..Last /\ Last # job.previous
  BY <1>1, LastIsRow
<1>3. PICK r : /\ Becomes(Last, r) /\ r.version = plans[job.previous].version + 1
               /\ r.replaces = job.previous /\ r.status = plans[Last].status
               /\ r.tasks = plans[Last].tasks /\ r.deps = plans[Last].deps /\ r.st = plans[Last].st
               /\ r.result = plans[Last].result /\ r.steps = plans[Last].steps
               /\ r.external = plans[Last].external
  BY <1>1, <1>2, MetadataEffect
<1>4. plans[job.previous].version \in 1..job.previous /\ plans[Last].result \subseteq 1..Len(plans[Last].tasks)
  BY <1>1, <1>2, RowFacts
<1>5. r.version \in 1..Last /\ r.replaces \in 0..(Last - 1)
  BY <1>1, <1>2, <1>3, <1>4
<1>6. RowsOK' /\ Last' = Last
  BY <1>1, <1>2, <1>3, <1>4, <1>5, SameGraph
<1>7. plans'[Last'] = r /\ plans'[Last] = r /\ plans'[job'.previous] = plans[job.previous]
  BY <1>1, <1>2, <1>3, <1>6 DEF Becomes
<1>8. Fresh'
  BY <1>1, <1>3, <1>7 DEF Fresh
<1>9. StoredOK'
  BY <1>1, <1>3, <1>7 DEF StoredOK, Planned, Later
<1>10. CarryOK'
  BY <1>1, <1>8 DEF CarryOK, Planned, Fresh
<1> QED BY <1>6, <1>9, <1>10

\* Statuses are carried over, task by task; when none is left, every task has its new status.
LEMMA CarryStep ==
  ASSUME PlannerInv, Carry PROVE RowsOK' /\ StoredOK' /\ CarryOK' /\ Last' = Last
<1> DEFINE k == Len(plans[Last].tasks)
<1>1. /\ RowsOK /\ pc = "carry" /\ job' = job /\ outcome' = outcome /\ Last # 0
      /\ job.previous \in 0..Last /\ job.previous # 0 /\ job.previous < Last /\ plans[Last].external
      /\ plans[job.previous].status = "SUPERSEDED" /\ plans[Last].replaces = job.previous
      /\ plans[Last].version = plans[job.previous].version + 1
      /\ \A t \in 1..k : plans[Last].st[t] \in {"PENDING", NewStatus(t)}
      /\ \A t \in 1..k : plans[Last].st[t] = "DONE" => t \in plans[Last].result
  BY DEF PlannerInv, Carry, Enter, Keep, JobOK, Later, CarryOK, StoredOK
<1>2. job.previous \in 1..Last /\ Last \in 1..Last /\ Last # job.previous
  BY <1>1, LastIsRow
<1>3. /\ plans[Last].version \in 1..Last /\ plans[Last].replaces \in 0..(Last - 1)
      /\ plans[Last].result \subseteq 1..k /\ Shaped(plans[Last]) /\ plans[Last] \in PlanRow
  BY <1>1, <1>2, RowFacts
<1>4. CASE Uncarried = {}
  <2>1. UNCHANGED plans /\ pc' = "steps" /\ Last' = Last
    BY <1>4 DEF Carry, Enter, Last
  <2>2. RowsOK'
    BY <1>1, <2>1 DEF RowsOK
  <2>3. \A t : NewStatus(t)' = NewStatus(t)
    BY <1>1, <2>1, NewStatusSame
  <2>4. \A t \in 1..k : plans[Last].st[t] = NewStatus(t)
    <3>1. DOMAIN plans[Last].tasks = 1..k
      BY <1>3 DEF PlanRow
    <3> QED BY <1>4, <3>1 DEF Uncarried, Plan
  <2>5. StoredOK'
    BY <1>1, <2>1 DEF StoredOK, Planned, Later
  <2>6. CarryOK'
    <3>1. pc' = "steps" /\ job'.previous # 0 /\ plans'[Last'] = plans[Last]
      BY <1>1, <2>1
    <3> QED BY <1>1, <2>3, <2>4, <3>1 DEF CarryOK
  <2> QED BY <2>1, <2>2, <2>5, <2>6
<1>5. CASE Uncarried # {}
  <2>1. PICK t \in Uncarried : \E r :
           /\ t \in 1..k /\ Becomes(Last, r)
           /\ pc' = (IF NewStatus(t) = "DONE" THEN "result" ELSE "carry")
           /\ Len(r.st) = Len(plans[Last].st) /\ r.st[t] = NewStatus(t)
           /\ \A u \in 1..k : u # t => r.st[u] = plans[Last].st[u]
           /\ r.version = plans[Last].version /\ r.replaces = plans[Last].replaces
           /\ r.status = plans[Last].status /\ r.tasks = plans[Last].tasks /\ r.deps = plans[Last].deps
           /\ r.result = plans[Last].result /\ r.steps = plans[Last].steps
           /\ r.external = plans[Last].external
    BY <1>1, <1>5, CarryEffect
  <2>2. PICK r :
           /\ t \in 1..k /\ Becomes(Last, r)
           /\ pc' = (IF NewStatus(t) = "DONE" THEN "result" ELSE "carry")
           /\ Len(r.st) = Len(plans[Last].st) /\ r.st[t] = NewStatus(t)
           /\ \A u \in 1..k : u # t => r.st[u] = plans[Last].st[u]
           /\ r.version = plans[Last].version /\ r.replaces = plans[Last].replaces
           /\ r.status = plans[Last].status /\ r.tasks = plans[Last].tasks /\ r.deps = plans[Last].deps
           /\ r.result = plans[Last].result /\ r.steps = plans[Last].steps
           /\ r.external = plans[Last].external
    BY <2>1
  <2>3. RowsOK' /\ Last' = Last
    BY <1>1, <1>2, <1>3, <2>2, SameGraph
  <2>4. plans'[Last'] = r /\ plans'[Last] = r /\ plans'[job'.previous] = plans[job.previous]
    BY <1>1, <1>2, <2>2, <2>3 DEF Becomes
  <2>5. \A u : NewStatus(u)' = NewStatus(u)
    <3>1. Len(plans') = Len(plans) /\ plans'[job.previous] = plans[job.previous]
      BY <1>1, <2>2, <2>4 DEF Becomes
    <3> QED BY <1>1, <2>2, <2>4, <3>1, NewStatusSame
  <2>6. StoredOK'
    BY <1>1, <2>2, <2>4 DEF StoredOK, Planned, Later
  <2>7. \A u \in 1..k : r.st[u] \in {"PENDING", NewStatus(u)}
    BY <1>1, <2>2
  <2>8. pc' = "carry" => \A u \in 1..k : r.st[u] = "DONE" => u \in r.result
    BY <1>1, <2>2
  <2>9. pc' \in {"carry", "result"}
    BY <2>2
  <2>10. CarryOK'
    BY <2>2, <2>4, <2>5, <2>7, <2>8, <2>9 DEF CarryOK, Planned
  <2> QED BY <2>3, <2>6, <2>10
<1> QED BY <1>4, <1>5

\* What is carried over as DONE has a result before the next task is taken.
LEMMA ResultStep ==
  ASSUME PlannerInv, Result PROVE RowsOK' /\ StoredOK' /\ CarryOK' /\ Last' = Last
<1> DEFINE k == Len(plans[Last].tasks)
<1>1. /\ RowsOK /\ pc = "result" /\ job' = job /\ outcome' = outcome /\ Last # 0 /\ pc' = "carry"
      /\ job.previous \in 0..Last /\ job.previous # 0 /\ job.previous < Last /\ plans[Last].external
      /\ plans[job.previous].status = "SUPERSEDED" /\ plans[Last].replaces = job.previous
      /\ plans[Last].version = plans[job.previous].version + 1
      /\ \A t \in 1..k : plans[Last].st[t] \in {"PENDING", NewStatus(t)}
  BY DEF PlannerInv, Result, Enter, Keep, JobOK, Later, CarryOK, StoredOK
<1>2. job.previous \in 1..Last /\ Last \in 1..Last /\ Last # job.previous
  BY <1>1, LastIsRow
<1>3. /\ plans[Last].version \in 1..Last /\ plans[Last].replaces \in 0..(Last - 1)
      /\ plans[Last].result \subseteq 1..k
  BY <1>1, <1>2, RowFacts
<1>4. PICK r : /\ Becomes(Last, r) /\ r.result = plans[Last].result \cup {t \in 1..k : plans[Last].st[t] = "DONE"}
               /\ r.version = plans[Last].version /\ r.replaces = plans[Last].replaces
               /\ r.status = plans[Last].status /\ r.tasks = plans[Last].tasks /\ r.deps = plans[Last].deps
               /\ r.st = plans[Last].st /\ r.steps = plans[Last].steps
               /\ r.external = plans[Last].external
  BY <1>1, ResultEffect
<1>5. RowsOK' /\ Last' = Last
  BY <1>1, <1>2, <1>3, <1>4, SameGraph
<1>6. plans'[Last'] = r /\ plans'[Last] = r /\ plans'[job'.previous] = plans[job.previous]
  BY <1>1, <1>2, <1>4, <1>5 DEF Becomes
<1>7. \A u : NewStatus(u)' = NewStatus(u)
  <2>1. Len(plans') = Len(plans) /\ plans'[job.previous] = plans[job.previous]
    BY <1>1, <1>4, <1>6 DEF Becomes
  <2> QED BY <1>1, <1>4, <1>6, <2>1, NewStatusSame
<1>8. StoredOK'
  BY <1>1, <1>4, <1>6 DEF StoredOK, Planned, Later
<1>9. CarryOK'
  BY <1>1, <1>4, <1>6, <1>7 DEF CarryOK, Planned
<1> QED BY <1>5, <1>8, <1>9

\* Steps are stored, task by task; when none is left, the request ends well.
LEMMA StepsStep ==
  ASSUME PlannerInv, CreateSteps, Stepless = {} \/ Scoped PROVE RowsOK' /\ StoredOK' /\ CarryOK' /\ Last' = Last
<1> DEFINE k == Len(plans[Last].tasks)
<1>1. /\ RowsOK /\ pc = "steps" /\ outcome = "none" /\ job' = job /\ Last # 0
      /\ job.previous \in 0..Last /\ job.previous < Last /\ plans[Last].external
      /\ job.previous # 0 =>
           /\ plans[job.previous].status = "SUPERSEDED" /\ plans[Last].replaces = job.previous
           /\ plans[Last].version = plans[job.previous].version + 1
           /\ \A t \in 1..k : plans[Last].st[t] = NewStatus(t)
      /\ job.previous = 0 => Fresh
      /\ \A t \in 1..k : plans[Last].st[t] = "DONE" => t \in plans[Last].result
  BY DEF PlannerInv, CreateSteps, Keep, JobOK, Later, CarryOK, StoredOK
<1>2. Last \in 1..Last /\ Last \in Nat
  BY <1>1, LastIsRow
<1>3. /\ plans[Last].version \in 1..Last /\ plans[Last].replaces \in 0..(Last - 1)
      /\ plans[Last].result \subseteq 1..k /\ Shaped(plans[Last]) /\ Sound(plans[Last]) /\ plans[Last] \in PlanRow
  BY <1>1, <1>2, RowFacts
<1>4. CASE Stepless = {}
  <2>1. UNCHANGED plans /\ pc' = "idle" /\ outcome' = "planned" /\ Last' = Last
    BY <1>4 DEF CreateSteps, Ends, Last
  <2>2. RowsOK'
    BY <1>1, <2>1 DEF RowsOK
  <2>3. \A t : NewStatus(t)' = NewStatus(t)
    BY <1>1, <2>1, NewStatusSame
  <2>4. \A t \in 1..k : DOMAIN plans[Last].steps[t] # {}
    <3>1. DOMAIN plans[Last].tasks = 1..k
      BY <1>3 DEF PlanRow
    <3> QED BY <1>4, <3>1 DEF Stepless, Plan
  <2>5. plans'[Last'] = plans[Last] /\ plans'[job'.previous] = plans[job.previous]
    BY <1>1, <2>1
  <2>6. StoredOK'
    BY <1>1, <2>1, <2>4, <2>5 DEF StoredOK, Planned, Later
  <2>7. Fresh => Fresh'
    BY <2>5 DEF Fresh
  <2>8. CarryOK'
    BY <1>1, <2>1, <2>3, <2>5, <2>7 DEF CarryOK, Planned
  <2> QED BY <2>1, <2>2, <2>6, <2>8
<1>5. CASE Stepless # {} /\ Scoped
  <2>1. PICK t \in 1..k : \E r :
           /\ ScopesHold(plans[Last].tasks[t])
           /\ Becomes(Last, r) /\ pc' = "steps" /\ outcome' = outcome
           /\ Len(r.steps) = Len(plans[Last].steps) /\ r.steps[t] = Steps(plans[Last].tasks[t])
           /\ \A u \in 1..k : u # t => r.steps[u] = plans[Last].steps[u]
           /\ r.version = plans[Last].version /\ r.replaces = plans[Last].replaces
           /\ r.status = plans[Last].status /\ r.tasks = plans[Last].tasks /\ r.deps = plans[Last].deps
           /\ r.result = plans[Last].result /\ r.st = plans[Last].st
           /\ r.external = plans[Last].external
    BY <1>1, <1>5, StepsEffect
  <2>2. PICK r :
           /\ ScopesHold(plans[Last].tasks[t])
           /\ Becomes(Last, r) /\ pc' = "steps" /\ outcome' = outcome
           /\ Len(r.steps) = Len(plans[Last].steps) /\ r.steps[t] = Steps(plans[Last].tasks[t])
           /\ \A u \in 1..k : u # t => r.steps[u] = plans[Last].steps[u]
           /\ r.version = plans[Last].version /\ r.replaces = plans[Last].replaces
           /\ r.status = plans[Last].status /\ r.tasks = plans[Last].tasks /\ r.deps = plans[Last].deps
           /\ r.result = plans[Last].result /\ r.st = plans[Last].st
           /\ r.external = plans[Last].external
    BY <2>1
  <2>3. Shaped(r)
    BY <1>3, <2>2, StillShaped
  <2>4. Sound(r)
    BY <1>3, <2>2 DEF Sound
  <2>5. RowsOK' /\ Last' = Last
    BY <1>1, <1>2, <1>3, <2>2, <2>3, <2>4, RowsBecome
  <2>6. plans'[Last'] = r /\ plans'[Last] = r
    BY <1>2, <2>2, <2>5 DEF Becomes
  <2>7. job.previous # 0 => plans'[job'.previous] = plans[job.previous] /\ plans'[job.previous] = plans[job.previous]
    BY <1>1, <1>2, <2>2 DEF Becomes
  <2>8. job.previous # 0 => \A u : NewStatus(u)' = NewStatus(u)
    <3>1. Len(plans') = Len(plans)
      BY <2>2 DEF Becomes
    <3> QED BY <1>1, <2>2, <2>6, <2>7, <3>1, NewStatusSame
  <2>9. StoredOK'
    BY <1>1, <2>2, <2>6, <2>7 DEF StoredOK, Planned, Later
  <2>10. Fresh => Fresh'
    BY <2>2, <2>6 DEF Fresh
  <2>11. CarryOK'
    BY <1>1, <2>2, <2>6, <2>8, <2>10 DEF CarryOK, Planned
  <2> QED BY <2>5, <2>9, <2>11
<1> QED BY <1>4, <1>5

\* A run works only on a plan that is whole.
LEMMA WorkStep ==
  ASSUME PlannerInv, Work PROVE RowsOK' /\ StoredOK' /\ CarryOK' /\ Last' = Last
<1> DEFINE k == Len(plans[Last].tasks)
<1>1. Planned /\ job.previous = 0 /\ plans[Last].status = "ACTIVE" /\ pc' = pc /\ outcome' = outcome /\ job' = job
  BY DEF Work, Planned, Plan, request
<1>2. /\ RowsOK /\ Last # 0 /\ plans[Last].external /\ Fresh
      /\ \A t \in 1..k : DOMAIN plans[Last].steps[t] # {}
  BY <1>1 DEF PlannerInv, JobOK, CarryOK, StoredOK
<1>3. PICK r : /\ Becomes(Last, r) /\ r.status \in {"DONE", "FAILED"}
               /\ Len(r.st) = Len(plans[Last].st) /\ r.result \subseteq 1..k
               /\ \A t \in 1..k : r.st[t] = "DONE" => t \in r.result
               /\ r.version = plans[Last].version /\ r.replaces = plans[Last].replaces
               /\ r.tasks = plans[Last].tasks /\ r.deps = plans[Last].deps
               /\ r.steps = plans[Last].steps /\ r.external = plans[Last].external
  BY <1>2, WorkEffect
<1>4. Last \in 1..Last /\ plans[Last].version \in 1..Last /\ plans[Last].replaces \in 0..(Last - 1)
  BY <1>2, LastIsRow, RowFacts
<1>5. RowsOK' /\ Last' = Last
  BY <1>2, <1>3, <1>4, SameGraph
<1>6. plans'[Last'] = r /\ plans'[Last] = r
  BY <1>3, <1>4, <1>5 DEF Becomes
<1>7. StoredOK'
  BY <1>1, <1>2, <1>3, <1>6 DEF StoredOK, Planned, Later
<1>8. CarryOK'
  BY <1>1, <1>3, <1>6 DEF CarryOK, Planned
<1> QED BY <1>5, <1>7, <1>8

\* A request whose plan is not stored yet, or that is over.
LEMMA OtherSteps ==
  ASSUME PlannerInv, Request \/ Garbled \/ Goal \/ Decompose \/ Graph \/ (Create /\ ~Storable(draft))
         \/ (CreateSteps /\ Stepless # {} /\ ~Scoped) \/ Crash
  PROVE  RowsOK' /\ StoredOK' /\ CarryOK' /\ Last' = Last
<1>1. /\ UNCHANGED plans
      /\ pc' \in Asking \cup {"create"} \/ (pc' = "idle" /\ outcome' # "planned")
  <2> USE DEF Asking
  <2>1. CASE Request
    BY <2>1 DEF Request
  <2>2. CASE Garbled
    BY <2>2 DEF Garbled, FallsBack, Accepts, Replans, Ends
  <2>3. CASE Goal
    BY <2>3 DEF Goal
  <2>4. CASE Decompose
    BY <2>4 DEF Decompose, Accepts, Replans, Raises, Ends
  <2>5. CASE Create /\ ~Storable(draft)
    BY <2>5 DEF Create, Ends
  <2>6. CASE Crash
    BY <2>6 DEF Crash, Ends
  <2>7. CASE Graph
    BY <2>7 DEF Graph, Accepts
  <2>8. CASE CreateSteps /\ Stepless # {} /\ ~Scoped
    BY <2>8 DEF CreateSteps, Scoped, Ends, Plan
  <2> QED BY <2>1, <2>2, <2>3, <2>4, <2>5, <2>6, <2>7, <2>8
<1>2. RowsOK
  BY DEF PlannerInv
<1> QED BY <1>1, <1>2, QuietStep DEF Last

\* Nothing changes when nothing is done.
LEMMA StillStep ==
  ASSUME PlannerInv, UNCHANGED vars PROVE RowsOK' /\ StoredOK' /\ CarryOK' /\ Last' = Last
<1>1. plans' = plans /\ pc' = pc /\ outcome' = outcome /\ job' = job /\ Last' = Last
  BY DEF vars, request, Last
<1>2. RowsOK' /\ StoredOK'
  BY <1>1 DEF PlannerInv, RowsOK, StoredOK, Planned, Later
<1>3. (\A t : NewStatus(t)' = NewStatus(t)) /\ (Fresh' <=> Fresh)
  BY <1>1, NewStatusSame DEF Fresh
<1>4. CarryOK'
  BY <1>1, <1>3 DEF PlannerInv, CarryOK, Planned
<1> QED BY <1>1, <1>2, <1>4

\* Every step keeps the rows and what is known of the transactions that are over.
LEMMA RowsStep ==
  ASSUME PlannerInv, [Next]_vars
  PROVE  /\ RowsOK' /\ StoredOK' /\ CarryOK'
         /\ Last' = Last \/ (Create /\ Last' = Last + 1)
<1>1. CASE Create /\ Storable(draft)
  BY <1>1, CreateStep
<1>2. CASE Request \/ Garbled \/ Goal \/ Decompose \/ Graph \/ (Create /\ ~Storable(draft))
         \/ (CreateSteps /\ Stepless # {} /\ ~Scoped) \/ Crash
  BY <1>2, OtherSteps
<1>3. CASE External
  BY <1>3, ExternalStep
<1>4. CASE Supersede
  BY <1>4, SupersedeStep
<1>5. CASE Metadata
  BY <1>5, MetadataStep
<1>6. CASE Carry
  BY <1>6, CarryStep
<1>7. CASE Result
  BY <1>7, ResultStep
<1>8. CASE CreateSteps /\ (Stepless = {} \/ Scoped)
  BY <1>8, StepsStep
<1>9. CASE Work
  BY <1>9, WorkStep
<1>10. CASE Over \/ UNCHANGED vars
  BY <1>10, StillStep DEF Over
<1> QED BY <1>1, <1>2, <1>3, <1>4, <1>5, <1>6, <1>7, <1>8, <1>9, <1>10 DEF Next

\* The keys of the tasks of a plan are names.
LEMMA KeysAreNames ==
  ASSUME RowsOK, NEW n \in 1..Last
  PROVE  {t.key : t \in {plans[n].tasks[i] : i \in DOMAIN plans[n].tasks}} \subseteq Names
<1>1. plans[n] \in PlanRow
  BY RowFacts
<1>2. plans[n].tasks \in Seq(Tasks)
  BY <1>1 DEF PlanRow
<1>3. \A i \in DOMAIN plans[n].tasks : plans[n].tasks[i] \in Tasks
  BY <1>2
<1> QED BY <1>3 DEF Tasks

\* Every step keeps what is known of the request.
LEMMA JobStep ==
  ASSUME PlannerInv, [Next]_vars, Last' = Last \/ (Create /\ Last' = Last + 1)
  PROVE  JobOK'
<1>1. /\ RowsOK /\ job.previous \in 0..Last /\ job \in [previous : 0..Last, invalid : SUBSET Names]
      /\ pc \in Later \/ Planned => Last # 0 /\ job.previous < Last
      /\ pc \in {"supersede", "metadata", "carry", "result"} => job.previous # 0
      /\ pc # "idle" => outcome = "none"
  BY DEF PlannerInv, JobOK
<1>2. Last \in Nat
  BY <1>1 DEF RowsOK, Last
<1> USE DEF Later, Planned
<1>3. CASE Request
  <2>1. pc' = "goal" /\ outcome' = "none" /\ plans' = plans /\ Last' = Last
    BY <1>3 DEF Request, Last
  <2>2. job' \in [previous : 0..Last, invalid : SUBSET Names]
    <3>1. CASE job' = NewPlan
      BY <1>2, <3>1 DEF NewPlan
    <3>2. ASSUME NEW n \in 1..Last,
                 NEW keys \in SUBSET {t.key : t \in {Plan(n).tasks[i] : i \in DOMAIN Plan(n).tasks}},
                 job' = [previous |-> n, invalid |-> keys]
          PROVE  job' \in [previous : 0..Last, invalid : SUBSET Names]
      <4>1. keys \subseteq Names
        BY <1>1, KeysAreNames DEF Plan
      <4> QED BY <1>2, <3>2, <4>1
    <3> QED BY <1>3, <3>1, <3>2 DEF Request
  <2> QED BY <2>1, <2>2 DEF JobOK
<1>4. CASE Garbled
  <2>1. job' = job /\ Last' = Last /\ \/ pc \in Asking /\ pc' \in Asking \cup {"create"} /\ outcome' = outcome
                                      \/ pc' = "idle" /\ outcome' = "rejected"
    BY <1>4 DEF Garbled, FallsBack, Accepts, Replans, Ends, Last, Asking
  <2> QED BY <1>1, <2>1 DEF JobOK, Asking
<1>5. CASE Goal
  <2>1. job' = job /\ Last' = Last /\ pc' = "decompose" /\ pc = "goal" /\ outcome' = outcome
    BY <1>5 DEF Goal, Last
  <2> QED BY <1>1, <2>1 DEF JobOK
<1>6. CASE Decompose
  <2>1. job' = job /\ Last' = Last /\ pc = "decompose"
        /\ \/ pc' \in {"create", "decompose", "graph"} /\ outcome' = outcome
           \/ pc' = "idle" /\ outcome' \in {"rejected", "raised"}
    BY <1>6 DEF Decompose, Accepts, Replans, Raises, Ends, Last
  <2> QED BY <1>1, <2>1 DEF JobOK
<1>13. CASE Graph
  <2>1. job' = job /\ Last' = Last /\ pc = "graph" /\ pc' = "create" /\ outcome' = outcome
    BY <1>13 DEF Graph, Accepts, Last
  <2> QED BY <1>1, <2>1 DEF JobOK
<1>7. CASE Create
  <2>1. job' = job /\ pc = "create"
        /\ \/ pc' = "external" /\ outcome' = outcome /\ Len(plans') = Last + 1
           \/ pc' = "idle" /\ outcome' = "refused"
    <3>1. Len(Append(plans, Row(draft))) = Last + 1
      BY <1>1 DEF RowsOK, Last
    <3> QED BY <1>7, <3>1 DEF Create, Keep, Ends, Enter
  <2>2. pc' = "external" => Last' = Last + 1
    BY <2>1 DEF Last
  <2>3. job \in [previous : 0..Last', invalid : SUBSET Names]
    BY <1>1, <1>2
  <2> QED BY <1>1, <1>2, <2>1, <2>2, <2>3 DEF JobOK
<1>8. CASE External \/ Supersede \/ Metadata \/ Carry \/ Result
  <2>1. job' = job /\ outcome' = outcome
        /\ \/ pc = "external" /\ pc' = IF job.previous = 0 THEN "steps" ELSE "supersede"
           \/ pc \in {"supersede", "metadata", "carry", "result"} /\ pc' \in {"metadata", "carry", "result", "steps"}
    BY <1>8 DEF External, Supersede, Metadata, Carry, Result, Keep, Enter
  <2>2. Last' = Last
    BY <1>8 DEF Create, External, Supersede, Metadata, Carry, Result
  <2> QED BY <1>1, <2>1, <2>2 DEF JobOK
<1>9. CASE CreateSteps
  <2>1. job' = job /\ pc = "steps"
        /\ \/ pc' = "steps" /\ outcome' = outcome
           \/ pc' = "idle" /\ outcome' \in {"planned", "raised"}
    BY <1>9 DEF CreateSteps, Keep, Enter, Ends
  <2>2. Last' = Last
    BY <2>1 DEF Create
  <2> QED BY <1>1, <2>1, <2>2 DEF JobOK
<1>10. CASE Work
  <2>1. job' = job /\ pc' = pc /\ outcome' = outcome /\ pc = "idle"
    BY <1>10 DEF Work, request
  <2>2. Last' = Last
    BY <2>1 DEF Create
  <2> QED BY <1>1, <2>1, <2>2 DEF JobOK
<1>11. CASE Crash
  <2>1. job' = job /\ Last' = Last /\ pc' = "idle" /\ outcome' = "none"
    BY <1>11 DEF Crash, Ends, Last
  <2> QED BY <1>1, <2>1 DEF JobOK
<1>12. CASE Over \/ UNCHANGED vars
  <2>1. job' = job /\ Last' = Last /\ pc' = pc /\ outcome' = outcome
    BY <1>12 DEF Over, vars, request, Last
  <2> QED BY <1>1, <2>1 DEF JobOK
<1> QED BY <1>3, <1>4, <1>5, <1>6, <1>7, <1>8, <1>9, <1>10, <1>11, <1>12, <1>13 DEF Next

\* What is stored is a draft that was accepted.
LEMMA DraftStep == ASSUME PlannerInv, [Next]_vars PROVE DraftOK'
<1>1. (pc = "graph" => draft \in Prepared) /\ (pc = "create" => Drafted(draft))
  BY DEF PlannerInv, DraftOK
<1>2. ASSUME NEW d \in Prepared, NEW deps \in [DOMAIN d.tasks -> SUBSET DOMAIN d.tasks], Accepts(d, deps)
      PROVE  DraftOK'
  <2>1. pc' = "create"
    BY <1>2 DEF Accepts
  <2> QED BY <1>2, <2>1, AcceptedIsDrafted DEF DraftOK
<1>3. ASSUME pc' \notin {"graph", "create"} PROVE DraftOK'
  BY <1>3 DEF DraftOK
<1>4. ASSUME pc' = pc, draft' = draft PROVE DraftOK'
  BY <1>1, <1>4 DEF DraftOK, Drafted
<1>5. CASE Garbled
  <2>1. CASE Patience
    BY <1>4, <1>5, <2>1 DEF Garbled
  <2>2. CASE ~Patience /\ pc # "graph"
    BY <1>3, <1>5, <2>2 DEF Garbled, Ends
  <2>3. CASE ~Patience /\ pc = "graph"
    <3>1. CASE Replans
      BY <1>3, <3>1 DEF Replans, Ends
    <3>2. CASE Accepts(draft, Inferred(draft.tasks))
      BY <1>1, <1>2, <2>3, <3>2, InferredIsGraph
    <3> QED BY <1>5, <2>3, <3>1, <3>2 DEF Garbled, FallsBack
  <2> QED BY <2>1, <2>2, <2>3
<1>6. CASE Decompose
  <2>1. CASE pc' = "graph" /\ draft' \in Prepared
    BY <2>1 DEF DraftOK
  <2>2. CASE \E d \in Prepared : Accepts(d, Inferred(d.tasks))
    BY <1>2, <2>2, InferredIsGraph
  <2>3. CASE Raises \/ Replans
    BY <1>3, <2>3 DEF Raises, Replans, Ends
  <2> QED BY <1>6, <2>1, <2>2, <2>3 DEF Decompose
<1>7. CASE Graph
  <2>1. PICK deps \in Graphs[draft.tasks] : Accepts(draft, deps)
    BY <1>7 DEF Graph
  <2>2. draft \in Prepared
    BY <1>1, <1>7 DEF Graph
  <2>3. Graphs[draft.tasks] = {g \in [DOMAIN draft.tasks -> SUBSET DOMAIN draft.tasks] : GraphHolds(draft.tasks, g)}
    BY <2>2 DEF Graphs
  <2> QED BY <1>2, <2>1, <2>2, <2>3
<1>8. CASE Request \/ Goal
  BY <1>3, <1>8 DEF Request, Goal
<1>9. CASE Create \/ External \/ Supersede \/ Metadata \/ Carry \/ Result \/ CreateSteps
  <2>1. pc' \notin {"graph", "create"}
    BY <1>9 DEF Create, External, Supersede, Metadata, Carry, Result, CreateSteps, Ends, Enter
  <2> QED BY <1>3, <2>1
<1>10. CASE Crash
  BY <1>3, <1>10 DEF Crash, Ends
<1>11. CASE Work \/ Over \/ UNCHANGED vars
  BY <1>4, <1>11 DEF Work, Over, vars, request
<1> QED BY <1>5, <1>6, <1>7, <1>8, <1>9, <1>10, <1>11 DEF Next

\* The invariant is inductive.
LEMMA NextHolds == PlannerInv /\ [Next]_vars => PlannerInv'
<1>1. SUFFICES ASSUME PlannerInv, [Next]_vars PROVE PlannerInv'
  OBVIOUS
<1>2. /\ RowsOK' /\ StoredOK' /\ CarryOK'
      /\ Last' = Last \/ (Create /\ Last' = Last + 1)
  BY <1>1, RowsStep
<1>3. JobOK'
  BY <1>1, <1>2, JobStep
<1>4. DraftOK'
  BY <1>1, DraftStep
<1>5. CountsOK'
  BY <1>1, CountsStep DEF PlannerInv
<1> QED BY <1>2, <1>3, <1>4, <1>5 DEF PlannerInv

\* What the planner's rows, its request, its draft and its counts are, always.
THEOREM PlannerIsCorrect == Spec => []PlannerInv
BY InitHolds, NextHolds, PTL DEF Spec

(***************************************************************************)
(* What the runs check                                                     *)
(***************************************************************************)
\* A request asks the model a bounded number of questions, whatever the model answers: one and
\* one more per repair of a stage, for the goal, and for the components and the graph of every draft.
THEOREM QuestionsAreAlwaysBounded == Spec => []QuestionsAreBounded
<1>1. ASSUME PlannerInv PROVE QuestionsAreBounded
  <2>1. RowsOK /\ JobOK /\ CountsOK
    BY <1>1 DEF PlannerInv
  <2>2. ASSUME NEW n \in 1..Last
        PROVE  /\ Plan(n).status \in {"ACTIVE", "DONE", "FAILED", "SUPERSEDED"}
               /\ Plan(n).version \in 1..n /\ Plan(n).replaces \in 0..n - 1
               /\ DOMAIN Plan(n).st = DOMAIN Plan(n).tasks /\ Plan(n).result \subseteq DOMAIN Plan(n).tasks
               /\ \A t \in DOMAIN Plan(n).tasks : Plan(n).st[t] \in TaskStatuses
    <3> DEFINE p == plans[n]
    <3>1. /\ Shaped(p) /\ p.version \in 1..n /\ p.replaces \in 0..(n - 1)
          /\ p.result \subseteq 1..Len(p.tasks) /\ p \in PlanRow
      BY <2>1, RowFacts
    <3>2. /\ p.status \in {"ACTIVE", "DONE", "FAILED", "SUPERSEDED"}
          /\ p.st \in Seq(TaskStatuses) /\ p.tasks \in Seq(Tasks) /\ Len(p.st) = Len(p.tasks)
      BY <3>1 DEF PlanRow, Shaped
    <3> HIDE DEF p
    <3>3. DOMAIN p.st = 1..Len(p.tasks) /\ DOMAIN p.tasks = 1..Len(p.tasks)
      BY <3>2
    <3>4. \A t \in DOMAIN p.tasks : p.st[t] \in TaskStatuses
      BY <3>2, <3>3
    <3> QED BY <3>1, <3>2, <3>3, <3>4 DEF p, Plan
  <2>3. TypeOK
    BY <2>1, <2>2 DEF TypeOK, JobOK, CountsOK
  <2> QED BY <2>1, <2>3 DEF QuestionsAreBounded, CountsOK
<1> QED BY <1>1, PlannerIsCorrect, PTL

\* Steps that own files of their task only own all of them, one each.
LEMMA StepsOwnFiles ==
  ASSUME NEW task, ScopesHold(task)
  PROVE  /\ UNION {Steps(task)[s] : s \in DOMAIN Steps(task)} = task.paths
         /\ \A s \in DOMAIN Steps(task) : Steps(task)[s] # {} => s \in task.paths /\ Steps(task)[s] = {s}
<1>1. CASE task.paths # {}
  BY <1>1 DEF Steps
<1>2. CASE task.paths = {}
  BY <1>2 DEF ScopesHold
<1> QED BY <1>1, <1>2

\* What is stored is a plan: no file belongs to two tasks or two steps, also in a plan a crash or
\* an error has left half written, and a plan is whole once its caller knows of it.
THEOREM StoredIsAlwaysAPlan == Spec => []StoredIsAPlan
<1>1. ASSUME PlannerInv PROVE OneOwnerOfAFile
  <2>1. SUFFICES ASSUME NEW n \in 1..Last, NEW t \in DOMAIN plans[n].tasks, NEW u \in DOMAIN plans[n].tasks,
                        NEW s \in DOMAIN plans[n].steps[t], NEW r \in DOMAIN plans[n].steps[u],
                        plans[n].steps[t][s] \cap plans[n].steps[u][r] # {}
                 PROVE  /\ t = u /\ s = r
                        /\ plans[n].steps[t][s] \cap plans[n].steps[u][r] \subseteq plans[n].tasks[t].paths
    BY DEF OneOwnerOfAFile, Plan
  <2> DEFINE p == plans[n]
  <2>2. Sound(p) /\ p \in PlanRow
    BY <1>1, RowFacts DEF PlannerInv
  <2>3. DOMAIN p.tasks = 1..Len(p.tasks)
    BY <2>2 DEF PlanRow
  <2>4. /\ p.steps[t] = <<>> \/ (p.steps[t] = Steps(p.tasks[t]) /\ ScopesHold(p.tasks[t]))
        /\ p.steps[u] = <<>> \/ (p.steps[u] = Steps(p.tasks[u]) /\ ScopesHold(p.tasks[u]))
        /\ t # u => p.tasks[t].paths \cap p.tasks[u].paths = {}
    BY <2>2, <2>3 DEF Sound, PathsAreOwned
  <2>5. /\ p.steps[t] = Steps(p.tasks[t]) /\ ScopesHold(p.tasks[t])
        /\ p.steps[u] = Steps(p.tasks[u]) /\ ScopesHold(p.tasks[u])
    <3>1. DOMAIN <<>> = {}
      OBVIOUS
    <3> QED BY <2>1, <2>4, <3>1
  <2> HIDE DEF p
  <2>6. s \in p.tasks[t].paths /\ p.steps[t][s] = {s}
    BY <2>1, <2>5, StepsOwnFiles DEF p
  <2>7. r \in p.tasks[u].paths /\ p.steps[u][r] = {r}
    BY <2>1, <2>5, StepsOwnFiles DEF p
  <2>8. s = r /\ t = u
    BY <2>1, <2>4, <2>6, <2>7 DEF p
  <2> QED BY <2>6, <2>7, <2>8 DEF p
<1>2. ASSUME PlannerInv PROVE PlannedIsWhole
  <2>1. SUFFICES ASSUME Planned
                 PROVE  /\ plans[Last].external /\ \A t \in DOMAIN plans[Last].tasks :
                             /\ DOMAIN plans[Last].steps[t] # {}
                             /\ UNION {plans[Last].steps[t][s] : s \in DOMAIN plans[Last].steps[t]} = plans[Last].tasks[t].paths
                             /\ (plans[Last].st[t] = "DONE" => t \in plans[Last].result)
                        /\ job.previous # 0 => plans[job.previous].status = "SUPERSEDED"
    BY DEF PlannedIsWhole, Planned, Plan, Old
  <2>2. /\ Last # 0 /\ plans[Last].external /\ RowsOK
        /\ job.previous # 0 => plans[job.previous].status = "SUPERSEDED"
        /\ \A t \in 1..Len(plans[Last].tasks) : DOMAIN plans[Last].steps[t] # {}
        /\ \A t \in 1..Len(plans[Last].tasks) : plans[Last].st[t] = "DONE" => t \in plans[Last].result
    BY <1>2, <2>1 DEF PlannerInv, JobOK, StoredOK, CarryOK
  <2>3. Last \in 1..Last
    BY <2>2, LastIsRow
  <2>4. Sound(plans[Last]) /\ plans[Last] \in PlanRow
    BY <2>2, <2>3, RowFacts
  <2>5. DOMAIN plans[Last].tasks = 1..Len(plans[Last].tasks)
    BY <2>4 DEF PlanRow
  <2>6. ASSUME NEW t \in DOMAIN plans[Last].tasks
        PROVE  UNION {plans[Last].steps[t][s] : s \in DOMAIN plans[Last].steps[t]} = plans[Last].tasks[t].paths
    <3>1. DOMAIN <<>> = {}
      OBVIOUS
    <3>2. plans[Last].steps[t] = Steps(plans[Last].tasks[t]) /\ ScopesHold(plans[Last].tasks[t])
      BY <2>2, <2>4, <2>5, <3>1 DEF Sound
    <3> QED BY <3>2, StepsOwnFiles
  <2> QED BY <2>2, <2>5, <2>6
<1> QED BY <1>1, <1>2, PlannerIsCorrect, PTL DEF StoredIsAPlan

\* DONE tasks are carried over, never executed again: a revision that its caller knows of has DONE
\* exactly the tasks that were DONE in the plan it replaces and are not invalidated.
THEOREM RevisionsKeepWork == Spec => []RevisionKeepsWork
<1>1. ASSUME PlannerInv PROVE RevisionKeepsWork
  <2>1. SUFFICES ASSUME Planned, job.previous # 0
                 PROVE  /\ Plan(Last).replaces = job.previous /\ Plan(Last).version = Old.version + 1
                        /\ \A t \in DOMAIN Plan(Last).tasks :
                             Plan(Last).st[t] = "DONE" <=>
                               /\ Plan(Last).tasks[t].key \notin job.invalid
                               /\ \E u \in DOMAIN Old.tasks : Old.tasks[u].key = Plan(Last).tasks[t].key
                                                              /\ Old.st[u] = "DONE"
    BY DEF RevisionKeepsWork, Planned
  <2>2. /\ RowsOK /\ Last # 0 /\ plans[Last].replaces = job.previous
        /\ plans[Last].version = plans[job.previous].version + 1
        /\ \A t \in 1..Len(plans[Last].tasks) : plans[Last].st[t] = NewStatus(t)
    BY <1>1, <2>1 DEF PlannerInv, JobOK, StoredOK, CarryOK
  <2>3. plans[Last] \in PlanRow
    BY <2>2, LastIsRow, RowFacts
  <2>4. DOMAIN plans[Last].tasks = 1..Len(plans[Last].tasks)
    BY <2>3 DEF PlanRow
  <2>5. \A t : NewStatus(t) = "DONE" <=> Carried(Plan(Last).tasks[t].key)
    BY DEF NewStatus
  <2>6. \A t \in DOMAIN Plan(Last).tasks : Plan(Last).st[t] = "DONE" <=> Carried(Plan(Last).tasks[t].key)
    BY <2>2, <2>4, <2>5 DEF Plan
  <2>7. Plan(Last).replaces = job.previous /\ Plan(Last).version = Old.version + 1
    BY <2>2 DEF Plan, Old
  <2> QED BY <2>6, <2>7 DEF Carried
<1> QED BY <1>1, PlannerIsCorrect, PTL

\* The scheduler gets every task of every stored plan done: no cycle is ever stored, whatever
\* edges the model, the contracts and the keys came up with.
THEOREM StoredPlansCanAlwaysFinish == Spec => []StoredPlansCanFinish
<1>1. ASSUME PlannerInv PROVE StoredPlansCanFinish
  <2>1. SUFFICES ASSUME NEW n \in 1..Last, NEW t \in DOMAIN plans[n].deps
                 PROVE  Rounds(plans[n].deps)[t] = "DONE"
    BY DEF StoredPlansCanFinish, Plan
  <2>2. Shaped(plans[n]) /\ Sound(plans[n])
    BY <1>1, RowFacts DEF PlannerInv
  <2>3. IsGraph(plans[n].deps, Len(plans[n].tasks)) /\ Acyclic(plans[n].deps)
    BY <2>2 DEF Shaped, Sound
  <2> QED BY <2>3, AcyclicGraphsFinish
<1> QED BY <1>1, PlannerIsCorrect, PTL

\* Rows are added, and only the last one changes, but for the status of the plan that is replaced.
Kept == \A n \in 1..Last : /\ n \in DOMAIN plans' /\ plans'[n].tasks = Plan(n).tasks /\ plans'[n].deps = Plan(n).deps
                           /\ n < Last => plans'[n] = [Plan(n) EXCEPT !.status = plans'[n].status]

\* A row is itself with its own status.
LEMMA SameRow == ASSUME NEW p \in PlanRow PROVE p = [p EXCEPT !.status = p.status]
BY DEF PlanRow

\* A change of the last row that keeps its tasks and its graph keeps history.
LEMMA LastChanges ==
  ASSUME RowsOK, NEW r, Becomes(Last, r), r.tasks = plans[Last].tasks, r.deps = plans[Last].deps
  PROVE  Kept
<1>1. ASSUME NEW n \in 1..Last
      PROVE  /\ n \in DOMAIN plans' /\ plans'[n].tasks = Plan(n).tasks /\ plans'[n].deps = Plan(n).deps
             /\ n < Last => plans'[n] = [Plan(n) EXCEPT !.status = plans'[n].status]
  <2>1. n \in DOMAIN plans'
    BY DEF Becomes, Last
  <2>2. CASE n = Last
    BY <2>1, <2>2 DEF Becomes, Plan
  <2>3. CASE n # Last
    <3>1. plans'[n] = plans[n]
      BY <2>3 DEF Becomes
    <3>2. plans[n] = [plans[n] EXCEPT !.status = plans[n].status]
      BY RowFacts, SameRow
    <3> QED BY <2>1, <3>1, <3>2 DEF Plan
  <2> QED BY <2>2, <2>3
<1> QED BY <1>1 DEF Kept

\* History is kept where nothing changes.
LEMMA NothingChanges == ASSUME RowsOK, UNCHANGED plans PROVE Kept
<1>1. ASSUME NEW n \in 1..Last PROVE plans[n] = [plans[n] EXCEPT !.status = plans[n].status] /\ n \in DOMAIN plans
  <2>1. n \in DOMAIN plans
    BY DEF RowsOK, Last
  <2> QED BY <2>1, RowFacts, SameRow
<1> QED BY <1>1 DEF Kept, Plan

\* History is kept: a plan that was replaced never changes again, except that it may be replaced
\* once more, and no plan is taken away.
THEOREM HistoryIsAlwaysKept == Spec => HistoryIsKept
<1>1. ASSUME PlannerInv, [Next]_vars PROVE Kept
  <2>1. RowsOK
    BY <1>1 DEF PlannerInv
  <2>2. pc \in Later \/ Planned => Last # 0
    BY <1>1 DEF PlannerInv, JobOK
  <2>3. CASE \/ Request \/ Garbled \/ Goal \/ Decompose \/ Graph \/ (Create /\ ~Storable(draft))
             \/ Crash \/ Over \/ UNCHANGED vars
    <3>1. UNCHANGED plans
      BY <2>3 DEF Request, Garbled, Goal, Decompose, Graph, Create, Crash, Over, vars
    <3> QED BY <2>1, <3>1, NothingChanges
  <2>4. CASE Create /\ Storable(draft)
    <3>1. /\ Len(plans') = Last + 1 /\ \A m \in 1..Last : plans'[m] = plans[m]
          /\ Last \in Nat /\ plans' \in Seq(PlanRow)
      <4>1. Drafted(draft) /\ plans' = Append(plans, Row(draft))
        BY <1>1, <2>4 DEF PlannerInv, DraftOK, Create
      <4> QED BY <2>1, <4>1, CreateEffect
    <3>2. ASSUME NEW n \in 1..Last
          PROVE  n \in DOMAIN plans' /\ plans[n] = [plans[n] EXCEPT !.status = plans[n].status]
      <4>1. n \in DOMAIN plans'
        BY <3>1
      <4> QED BY <2>1, <4>1, RowFacts, SameRow
    <3> QED BY <3>1, <3>2 DEF Kept, Plan
  <2>5. CASE External
    BY <2>1, <2>2, <2>5, ExternalEffect, LastChanges DEF External, Later
  <2>6. CASE Supersede
    <3>1. job.previous \in 1..Last
      BY <1>1, <2>6 DEF PlannerInv, JobOK, Supersede, Later
    <3>2. PICK r : /\ Becomes(job.previous, r) /\ r = [plans[job.previous] EXCEPT !.status = r.status]
                   /\ r.tasks = plans[job.previous].tasks /\ r.deps = plans[job.previous].deps
      BY <2>1, <2>6, <3>1, SupersedeEffect
    <3>3. ASSUME NEW n \in 1..Last
          PROVE  /\ n \in DOMAIN plans' /\ plans'[n].tasks = Plan(n).tasks /\ plans'[n].deps = Plan(n).deps
                 /\ plans'[n] = [Plan(n) EXCEPT !.status = plans'[n].status]
      <4>1. n \in DOMAIN plans'
        BY <3>2 DEF Becomes, Last
      <4>2. CASE n = job.previous
        BY <3>2, <4>1, <4>2 DEF Becomes, Plan
      <4>3. CASE n # job.previous
        <5>1. plans'[n] = plans[n]
          BY <3>2, <4>3 DEF Becomes
        <5>2. plans[n] = [plans[n] EXCEPT !.status = plans[n].status]
          BY <2>1, RowFacts, SameRow
        <5> QED BY <4>1, <5>1, <5>2 DEF Plan
      <4> QED BY <4>2, <4>3
    <3> QED BY <3>3 DEF Kept
  <2>7. CASE Metadata
    <3>1. job.previous \in 1..Last /\ Last # 0
      BY <1>1, <2>7 DEF PlannerInv, JobOK, Metadata, Later
    <3> QED BY <2>1, <2>7, <3>1, MetadataEffect, LastChanges
  <2>8. CASE Carry
    <3>1. Last # 0
      BY <2>2, <2>8 DEF Carry, Later
    <3>2. CASE Uncarried = {}
      BY <2>1, <2>8, <3>2, NothingChanges DEF Carry
    <3>3. CASE Uncarried # {}
      BY <2>1, <2>8, <3>1, <3>3, CarryEffect, LastChanges
    <3> QED BY <3>2, <3>3
  <2>9. CASE Result
    <3>1. Last # 0
      BY <2>2, <2>9 DEF Result, Later
    <3> QED BY <2>1, <2>9, <3>1, ResultEffect, LastChanges
  <2>10. CASE CreateSteps
    <3>1. Last # 0
      BY <2>2, <2>10 DEF CreateSteps, Later
    <3>2. CASE Stepless = {}
      BY <2>1, <2>10, <3>2, NothingChanges DEF CreateSteps
    <3>3. CASE Stepless # {} /\ Scoped
      BY <2>1, <2>10, <3>1, <3>3, StepsEffect, LastChanges
    <3>4. CASE Stepless # {} /\ ~Scoped
      <4>1. UNCHANGED plans
        BY <2>10, <3>4 DEF CreateSteps, Scoped, Plan
      <4> QED BY <2>1, <4>1, NothingChanges
    <3> QED BY <3>2, <3>3, <3>4
  <2>11. CASE Work
    <3>1. Planned /\ job.previous = 0 /\ plans[Last].status = "ACTIVE"
      BY <2>11 DEF Work, Planned, Plan
    <3>2. Last # 0 /\ Fresh
      BY <1>1, <3>1 DEF PlannerInv, JobOK, CarryOK
    <3> QED BY <2>1, <2>11, <3>2, WorkEffect, LastChanges
  <2> QED BY <1>1, <2>3, <2>4, <2>5, <2>6, <2>7, <2>8, <2>9, <2>10, <2>11 DEF Next
<1>2. PlannerInv /\ [Next]_vars => [Kept]_vars
  BY <1>1
<1> QED BY <1>2, PlannerIsCorrect, PTL DEF Spec, HistoryIsKept, Kept
=============================================================================
