------------------------ MODULE PatchManifestProofs ------------------------
(***************************************************************************)
(* ManifestOfOneMoment and LimitsAreExact of PatchManifest, for every      *)
(* tree, limit and number of edits and requests, whatever is refused.      *)
(***************************************************************************)
EXTENDS PatchManifest, FiniteSetTheorems, NaturalsInduction, WellFoundedInduction, TLAPS

(***************************************************************************)
(* Paths                                                                   *)
(***************************************************************************)

\* The paths of a set have a first one, in the order of the walk.
LEMMA SomeFirst ==
  ASSUME NEW S, S \subseteq Paths, S # {}
  PROVE  \E p \in S : \A q \in S : Position[p] <= Position[q]
<1> DEFINE P == {Position[p] : p \in S}
<1>1. \A p \in Paths : Position[p] \in Nat
  BY TreeAssumption DEF Position, Paths, ToSet
<1>2. P \subseteq Nat /\ P # {}
  BY <1>1
<1>3. PICK k \in P : \A n \in P \ {k} : <<n, k>> \notin OpToRel(<, Nat)
  BY <1>2, NatLessThanWellFounded, WFMin
<1>4. \A n \in P \ {k} : ~(n < k)
  BY <1>2, <1>3 DEF OpToRel
<1>5. PICK p \in S : Position[p] = k
  BY <1>3
<1>6. \A q \in S : Position[p] <= Position[q]
  BY <1>1, <1>4, <1>5
<1> QED
  BY <1>5, <1>6

\* The path that is visited next is one of those that are listed.
LEMMA FirstIsListed ==
  ASSUME todo \subseteq Paths, todo # {}
  PROVE  First \in todo
BY SomeFirst DEF First

\* A path is above another one when it is the other one or is above its directory.
LEMMA AboveIsComplete ==
  ASSUME NEW p \in Paths
  PROVE  /\ p \in Above[p] /\ Parent[p] \in Nodes /\ Parent[p] \in Above[p]
         /\ \A m \in Above[Parent[p]] : m \in Above[p]
         /\ \A m \in Above[p] : m = p \/ m \in Above[Parent[p]]
         /\ \A m \in Above[p] : m \in Paths /\ m # p => Position[m] < Position[p]
<1>1. p \in Nodes /\ Parent[p] \in Nodes
  BY TreeAssumption DEF Nodes
<1>2. \A n \in Nodes : \A m : m \in Above[n] <=> m \in Nodes /\ \A S \in SUBSET Nodes : n \in S /\ Complete(S) => m \in S
  BY DEF Above
<1>3. p \in Above[p] /\ Parent[p] \in Above[p] /\ \A m \in Above[Parent[p]] : m \in Above[p]
  BY <1>1, <1>2 DEF Complete
<1>4. ASSUME NEW m \in Above[p], m # p PROVE m \in Above[Parent[p]]
  <2> SUFFICES ASSUME NEW S \in SUBSET Nodes, Parent[p] \in S, Complete(S) PROVE m \in S
    BY <1>1, <1>2, <1>4
  <2>1. Complete(S \cup {p}) /\ S \cup {p} \in SUBSET Nodes
    BY <1>1 DEF Complete
  <2> QED
    BY <1>1, <1>2, <1>4, <2>1
<1>5. ASSUME NEW m \in Above[p], m \in Paths, m # p PROVE Position[m] < Position[p]
  <2> DEFINE S == {n \in Nodes : n = p \/ n = Root \/ Position[n] < Position[p]}
  <2>1. \A q \in Paths : Position[q] \in Nat
    BY TreeAssumption DEF Position, Paths, ToSet
  <2>2. Complete(S)
    BY <1>1, <2>1, TreeAssumption DEF Complete, Nodes
  <2>3. m \in S
    BY <1>1, <1>2, <1>5, <2>2
  <2> QED
    BY <1>5, <2>3, TreeAssumption
<1> QED
  BY <1>1, <1>3, <1>4, <1>5

\* What is below a path comes after it, and is in it or in a directory below it.
LEMMA BelowIsComplete ==
  ASSUME NEW p \in Paths
  PROVE  /\ Below[p] \subseteq Paths /\ p \notin Below[p] /\ Parent[p] \notin Below[p] /\ Parent[p] # p
         /\ \A q \in Paths : q \in Below[p] <=> Parent[q] = p \/ Parent[q] \in Below[p]
         /\ \A q \in Below[p] : p \notin Below[q] /\ Below[q] \subseteq Below[p]
<1>1. \A q : q \in Below[p] <=> q \in Paths /\ q # p /\ p \in Above[q]
  BY DEF Below
<1>2. \A q \in Paths : Position[q] \in Nat
  BY TreeAssumption DEF Position, Paths, ToSet
<1>3. Parent[p] # p
  BY <1>2, TreeAssumption
<1>4. Parent[p] \notin Below[p]
  BY <1>1, <1>2, AboveIsComplete, TreeAssumption
<1>5. ASSUME NEW q \in Paths PROVE q \in Below[p] <=> Parent[q] = p \/ Parent[q] \in Below[p]
  <2>1. CASE q = p
    BY <1>1, <1>3, <1>4, <2>1
  <2>2. CASE q # p
    <3>1. Root \notin Below[p] /\ Root # p
      BY <1>1, TreeAssumption
    <3>2. Above[Root] = {Root}
      <4>1. Complete({Root}) /\ {Root} \in SUBSET Nodes
        BY TreeAssumption DEF Complete, Nodes
      <4>2. Root \in Nodes
        BY DEF Nodes
      <4> QED
        BY <4>1, <4>2 DEF Above
    <3>3. Parent[q] \in Paths \/ Parent[q] = Root
      BY TreeAssumption DEF Nodes
    <3>4. p \in Above[q] <=> p \in Above[Parent[q]]
      BY <2>2, AboveIsComplete
    <3>5. Parent[q] \in Paths => p \in Above[Parent[q]] <=> Parent[q] = p \/ Parent[q] \in Below[p]
      BY <1>1, AboveIsComplete
    <3> QED
      BY <1>1, <2>2, <3>1, <3>2, <3>3, <3>4, <3>5
  <2> QED
    BY <2>1, <2>2
<1>6. \A q \in Below[p] : p \notin Below[q]
  BY <1>1, <1>2, AboveIsComplete DEF Below
<1>7. ASSUME NEW q \in Below[p], NEW r \in Below[q] PROVE r \in Below[p]
  <2>1. r \in Paths /\ q \in Paths /\ q \in Above[r] /\ p \in Above[q] /\ q # r
    BY <1>1 DEF Below
  <2>2. p \in Above[r]
    <3> SUFFICES ASSUME NEW S \in SUBSET Nodes, r \in S, Complete(S) PROVE p \in S
      BY <2>1 DEF Above, Nodes
    <3>1. q \in S
      BY <2>1 DEF Above, Nodes
    <3> QED
      BY <2>1, <3>1 DEF Above, Nodes
  <2> QED
    BY <1>1, <1>6, <2>1, <2>2
<1> QED
  BY <1>1, <1>3, <1>4, <1>5, <1>6, <1>7

(***************************************************************************)
(* Sums                                                                    *)
(***************************************************************************)
SomeOf(s) == CHOOSE x \in s : TRUE

\* g adds up F over every subset of S, as the folds of the library do.
Adds(F, S, g) ==
  g = [s \in SUBSET S |-> IF s = {} THEN 0 ELSE F[SomeOf(s)] + g[s \ {SomeOf(s)}]]

\* A claim about the subsets of a finite set: of those for which it fails, one is smallest.
LEMMA SmallestSet ==
  ASSUME NEW S, IsFiniteSet(S), NEW B, B \subseteq SUBSET S, B # {}
  PROVE  \E s \in B : \A t \in B : Cardinality(s) <= Cardinality(t)
<1> DEFINE P == {Cardinality(s) : s \in B}
<1>1. P \subseteq Nat /\ P # {}
  <2> SUFFICES ASSUME NEW s \in B PROVE Cardinality(s) \in Nat
    OBVIOUS
  <2>1. IsFiniteSet(s)
    BY FS_Subset
  <2> QED
    BY <2>1, FS_CardinalityType
<1>2. PICK k \in P : \A n \in P \ {k} : <<n, k>> \notin OpToRel(<, Nat)
  BY <1>1, NatLessThanWellFounded, WFMin
<1>3. \A n \in P \ {k} : ~(n < k)
  BY <1>1, <1>2 DEF OpToRel
<1>4. PICK s \in B : Cardinality(s) = k
  BY <1>2
<1>5. \A t \in B : Cardinality(s) <= Cardinality(t)
  BY <1>1, <1>3, <1>4
<1> QED
  BY <1>5

\* A subset without one of its elements.
LEMMA OneLess ==
  ASSUME NEW S, IsFiniteSet(S), NEW s \in SUBSET S, NEW x \in s
  PROVE  /\ s \ {x} \in SUBSET S /\ Cardinality(s) \in Nat \ {0} /\ Cardinality(s \ {x}) \in Nat
         /\ Cardinality(s \ {x}) = Cardinality(s) - 1
<1>1. IsFiniteSet(s) /\ IsFiniteSet(s \ {x}) 
  BY FS_Subset, FS_RemoveElement
<1>2. Cardinality(s) \in Nat /\ Cardinality(s \ {x}) \in Nat /\ Cardinality(s \ {x}) = Cardinality(s) - 1
  BY <1>1, FS_CardinalityType, FS_RemoveElement
<1> QED
  BY <1>2

\* Such a sum exists: the sums of small subsets give those of larger ones.
LEMMA SumExists ==
  ASSUME NEW S, IsFiniteSet(S), NEW F
  PROVE  \E g : Adds(F, S, g)
<1> DEFINE Once(g, s) == IF s = {} THEN 0 ELSE F[SomeOf(s)] + g[s \ {SomeOf(s)}]
           UpTo(n)    == \E g : g = [s \in SUBSET S |-> g[s]] /\ \A s \in SUBSET S : Cardinality(s) <= n => g[s] = Once(g, s)
           B          == {n \in Nat : ~UpTo(n)}
<1>0. \A s \in SUBSET S : s # {} => SomeOf(s) \in s
  BY DEF SomeOf
<1>1. UpTo(0)
  <2> DEFINE g == [s \in SUBSET S |-> 0]
  <2>1. g = [s \in SUBSET S |-> g[s]]
    OBVIOUS
  <2>2. \A s \in SUBSET S : Cardinality(s) <= 0 => g[s] = Once(g, s)
    <3> SUFFICES ASSUME NEW s \in SUBSET S, Cardinality(s) <= 0 PROVE s = {}
      OBVIOUS
    <3>1. IsFiniteSet(s)
      BY FS_Subset
    <3> QED
      BY <3>1, FS_EmptySet, FS_CardinalityType
  <2> QED
    BY <2>1, <2>2
<1>2. ASSUME NEW n \in Nat, UpTo(n) PROVE UpTo(n + 1)
  <2>1. PICK g : g = [s \in SUBSET S |-> g[s]] /\ \A s \in SUBSET S : Cardinality(s) <= n => g[s] = Once(g, s)
    BY <1>2
  <2> DEFINE h == [s \in SUBSET S |-> Once(g, s)]
  <2>2. h = [s \in SUBSET S |-> h[s]]
    OBVIOUS
  <2>3. ASSUME NEW s \in SUBSET S, Cardinality(s) <= n + 1 PROVE h[s] = Once(h, s)
    <3>1. CASE s = {}
      BY <3>1
    <3>2. CASE s # {}
      <4>1. SomeOf(s) \in s
        BY <1>0, <3>2
      <4>2. s \ {SomeOf(s)} \in SUBSET S /\ Cardinality(s \ {SomeOf(s)}) <= n
        BY <2>3, <4>1, OneLess
      <4>3. h[s \ {SomeOf(s)}] = g[s \ {SomeOf(s)}]
        BY <2>1, <4>2
      <4> QED
        BY <3>2, <4>3
    <3> QED
      BY <3>1, <3>2
  <2> HIDE DEF h
  <2> QED
    BY <2>2, <2>3
<1> HIDE DEF UpTo
<1>3. \A n \in Nat : UpTo(n)
  <2>1. B \subseteq Nat /\ \A n \in Nat : n \in B <=> ~UpTo(n)
    OBVIOUS
  <2> HIDE DEF B
  <2> SUFFICES ASSUME B # {} PROVE FALSE
    BY <2>1
  <2>2. PICK k \in B : \A n \in B \ {k} : <<n, k>> \notin OpToRel(<, Nat)
    BY <2>1, NatLessThanWellFounded, WFMin
  <2>3. \A n \in B \ {k} : ~(n < k)
    BY <2>1, <2>2 DEF OpToRel
  <2>4. k # 0 /\ k - 1 \in Nat /\ k - 1 \notin B
    BY <1>1, <2>1, <2>3
  <2>5. UpTo((k - 1) + 1)
    BY <1>2, <2>1, <2>4
  <2> QED
    BY <2>1, <2>4, <2>5
<1>4. PICK g : g = [s \in SUBSET S |-> g[s]] /\ \A s \in SUBSET S : Cardinality(s) <= Cardinality(S) => g[s] = Once(g, s)
  BY <1>3, FS_CardinalityType DEF UpTo
<1>5. \A s \in SUBSET S : Cardinality(s) <= Cardinality(S)
  BY FS_Subset
<1>6. g = [s \in SUBSET S |-> Once(g, s)]
  BY <1>4, <1>5
<1> QED
  BY <1>6 DEF Adds

\* The library's sum is such a sum.
LEMMA SumIsAFold ==
  ASSUME NEW F, IsFiniteSet(DOMAIN F)
  PROVE  \E g : Adds(F, DOMAIN F, g) /\ SumFunction(F) = g[DOMAIN F]
<1> DEFINE S == DOMAIN F
           Is(g) == g = [s \in SUBSET S |-> IF s = {} THEN 0 ELSE F[CHOOSE x \in s : TRUE] + g[s \ {CHOOSE x \in s : TRUE}]]
           h == CHOOSE g : Is(g)
<1>1. SumFunction(F) = h[S]
  BY Zenon DEF SumFunction, SumFunctionOnSet, FoldFunctionOnSet, MapThenFoldSet
<1>2. \A g : Is(g) <=> Adds(F, S, g)
  BY Zenon DEF Adds, SomeOf
<1> HIDE DEF Is
<1>3. \E g : Is(g)
  BY <1>2, SumExists
<1>4. Is(h)
  BY Zenon, <1>3
<1> QED
  BY <1>1, <1>2, <1>4

\* A sum of numbers is a number, and an element more adds its number.
LEMMA SumSteps ==
  ASSUME NEW S, IsFiniteSet(S), NEW F, \A x \in S : F[x] \in Nat, NEW g, Adds(F, S, g)
  PROVE  /\ \A s \in SUBSET S : g[s] \in Nat
         /\ \A s \in SUBSET S : \A x \in S \ s : g[s \cup {x}] = F[x] + g[s]
<1>0. /\ g[{}] = 0
      /\ \A s \in SUBSET S : s # {} => /\ SomeOf(s) \in s /\ SomeOf(s) \in S
                                        /\ s \ {SomeOf(s)} \in SUBSET S
                                        /\ g[s] = F[SomeOf(s)] + g[s \ {SomeOf(s)}]
  BY DEF Adds, SomeOf
<1>1. \A s \in SUBSET S : g[s] \in Nat
  <2> DEFINE B == {s \in SUBSET S : g[s] \notin Nat}
  <2> SUFFICES ASSUME B # {} PROVE FALSE
    OBVIOUS
  <2>1. PICK s \in B : \A t \in B : Cardinality(s) <= Cardinality(t)
    BY SmallestSet
  <2>0. s \in SUBSET S /\ g[s] \notin Nat
    BY <2>1
  <2>2. /\ s # {} /\ SomeOf(s) \in s /\ SomeOf(s) \in S /\ s \ {SomeOf(s)} \in SUBSET S
        /\ g[s] = F[SomeOf(s)] + g[s \ {SomeOf(s)}]
    <3>1. s # {}
      <4> SUFFICES ASSUME s = {} PROVE FALSE
        OBVIOUS
      <4>1. g[s] = 0
        BY <1>0, Zenon
      <4> QED
        BY <2>0, <4>1
    <3> QED
      BY <1>0, <2>0, <3>1
  <2>3. Cardinality(s \ {SomeOf(s)}) < Cardinality(s) /\ Cardinality(s) \in Nat /\ Cardinality(s \ {SomeOf(s)}) \in Nat
    BY <2>1, <2>2, OneLess
  <2>4. s \ {SomeOf(s)} \notin B
    BY <2>1, <2>3
  <2>5. g[s \ {SomeOf(s)}] \in Nat /\ F[SomeOf(s)] \in Nat
    BY <2>2, <2>4
  <2> QED
    BY <2>0, <2>2, <2>5
<1>2. \A s \in SUBSET S : \A x \in S \ s : g[s \cup {x}] = F[x] + g[s]
  <2> DEFINE B == {s \in SUBSET S : \E x \in S \ s : g[s \cup {x}] # F[x] + g[s]}
  <2> SUFFICES ASSUME B # {} PROVE FALSE
    OBVIOUS
  <2>1. PICK s \in B : \A t \in B : Cardinality(s) <= Cardinality(t)
    BY SmallestSet
  <2>2. PICK x \in S \ s : g[s \cup {x}] # F[x] + g[s]
    BY <2>1
  <2> DEFINE c == SomeOf(s \cup {x})
             r == s \ {c}
  <2>3. c \in s \cup {x} /\ g[s \cup {x}] = F[c] + g[(s \cup {x}) \ {c}]
    BY <1>0
  <2> HIDE DEF c
  <2>4. CASE c = x
    <3>1. (s \cup {x}) \ {c} = s
      BY <2>4
    <3> QED
      BY <2>2, <2>3, <2>4, <3>1
  <2>5. CASE c # x
    <3>1. c \in s /\ (s \cup {x}) \ {c} = r \cup {x} /\ s = r \cup {c} /\ r \in SUBSET S /\ x \in S \ r /\ c \in S \ r
      BY <2>3, <2>5
    <3>0. s \in SUBSET S
      BY <2>1
    <3>2. Cardinality(r) < Cardinality(s) /\ Cardinality(s) \in Nat /\ Cardinality(r) \in Nat
      <4>1. c \in s
        BY <3>1
      <4>2. Cardinality(s) \in Nat \ {0} /\ Cardinality(r) \in Nat /\ Cardinality(r) = Cardinality(s) - 1
        BY <3>0, <4>1, OneLess
      <4> QED
        BY <4>2
    <3> HIDE DEF r
    <3>3. r \notin B
      BY <2>1, <3>2
    <3>4. g[r \cup {x}] = F[x] + g[r] /\ g[r \cup {c}] = F[c] + g[r]
      BY <3>1, <3>3
    <3>5. g[r] \in Nat /\ F[x] \in Nat /\ F[c] \in Nat
      BY <1>1, <3>1
    <3> QED
      <4>1. g[s \cup {x}] = F[c] + (F[x] + g[r])
        BY <2>3, <3>1, <3>4
      <4>2. g[s] = F[c] + g[r]
        BY <3>1, <3>4
      <4>3. g[s \cup {x}] = F[x] + g[s]
        BY <3>5, <4>1, <4>2
      <4> QED
        BY <2>2, <4>3
  <2> QED
    BY <2>4, <2>5
<1> QED
  BY <1>1, <1>2

\* A sum over fewer elements is not larger.
LEMMA SumGrows ==
  ASSUME NEW S, IsFiniteSet(S), NEW F, \A x \in S : F[x] \in Nat, NEW g, Adds(F, S, g), NEW s \in SUBSET S
  PROVE  g[s] <= g[S]
<1>0. /\ \A r \in SUBSET S : g[r] \in Nat
      /\ \A r \in SUBSET S : \A x \in S \ r : g[r \cup {x}] = F[x] + g[r]
  <2>1. \A r \in SUBSET S : g[r] \in Nat
    BY SumSteps
  <2>2. ASSUME NEW r \in SUBSET S, NEW x \in S \ r PROVE g[r \cup {x}] = F[x] + g[r]
    BY SumSteps
  <2> QED
    BY <2>1, <2>2
<1> DEFINE B == {t \in SUBSET S : ~(g[S \ t] <= g[S])}
<1> SUFFICES ASSUME B # {} PROVE FALSE
  <2>1. S \ (S \ s) = s /\ S \ s \in SUBSET S
    OBVIOUS
  <2> QED
    BY <2>1
<1>1. PICK t \in B : \A u \in B : Cardinality(t) <= Cardinality(u)
  BY SmallestSet
<1>2. g[S] \in Nat /\ \A u \in SUBSET S : g[u] \in Nat
  BY <1>0
<1>3. t # {}
  <2>1. S \ {} = S
    OBVIOUS
  <2> QED
    BY <1>1, <1>2, <2>1
<1>4. PICK x \in t : TRUE
  BY <1>3
<1> DEFINE u == t \ {x}
<1>5. Cardinality(u) < Cardinality(t) /\ Cardinality(t) \in Nat /\ Cardinality(u) \in Nat /\ u \in SUBSET S
  BY <1>1, <1>4, OneLess
<1>6. g[S \ u] <= g[S]
  BY <1>1, <1>5
<1>7. S \ u = (S \ t) \cup {x} /\ x \in S \ (S \ t) /\ S \ t \in SUBSET S
  BY <1>1, <1>4
<1>8. g[S \ u] = F[x] + g[S \ t] /\ F[x] \in Nat
  <2>1. x \in S /\ F[x] \in Nat
    BY <1>7
  <2>2. g[(S \ t) \cup {x}] = F[x] + g[S \ t]
    BY <1>7, <1>0
  <2> QED
    BY <1>7, <2>1, <2>2
<1>9. g[S \ t] \in Nat /\ g[S \ u] \in Nat
  BY <1>2, <1>5
<1> HIDE DEF u
<1> QED
  BY <1>1, <1>2, <1>6, <1>8, <1>9

\* What is added up over a set of which both functions say the same.
LEMMA SumsAgree ==
  ASSUME NEW S, IsFiniteSet(S), NEW F, NEW T, T \subseteq S, NEW G, \A x \in T : F[x] = G[x],
         NEW f, Adds(F, S, f), NEW g, Adds(G, T, g)
  PROVE  f[T] = g[T]
<1> DEFINE B == {s \in SUBSET T : f[s] # g[s]}
<1>0. IsFiniteSet(T)
  BY FS_Subset
<1> SUFFICES ASSUME B # {} PROVE FALSE
  OBVIOUS
<1>1. PICK s \in B : \A t \in B : Cardinality(s) <= Cardinality(t)
  BY <1>0, SmallestSet
<1>2. s \in SUBSET T /\ s \in SUBSET S /\ f[s] # g[s]
  BY <1>1
<1>3. f[s] = (IF s = {} THEN 0 ELSE F[SomeOf(s)] + f[s \ {SomeOf(s)}])
  BY <1>2 DEF Adds
<1>4. g[s] = (IF s = {} THEN 0 ELSE G[SomeOf(s)] + g[s \ {SomeOf(s)}])
  BY <1>2 DEF Adds
<1>5. s # {}
  BY <1>2, <1>3, <1>4
<1>6. SomeOf(s) \in s
  BY <1>5 DEF SomeOf
<1>7. /\ s \ {SomeOf(s)} \in SUBSET T /\ Cardinality(s \ {SomeOf(s)}) < Cardinality(s)
      /\ Cardinality(s) \in Nat /\ Cardinality(s \ {SomeOf(s)}) \in Nat
  BY <1>0, <1>2, <1>6, OneLess
<1>8. s \ {SomeOf(s)} \notin B
  BY <1>1, <1>7
<1>9. f[s \ {SomeOf(s)}] = g[s \ {SomeOf(s)}] /\ F[SomeOf(s)] = G[SomeOf(s)]
  BY <1>2, <1>6, <1>7, <1>8
<1> QED
  BY <1>2, <1>3, <1>4, <1>5, <1>9

(***************************************************************************)
(* The invariant                                                           *)
(***************************************************************************)
Absent  == [kind |-> "none", content |-> "none"]
Items   == [kind : {"file", "link"}, content : Contents]
Current == IF Len(kept) \in {0, 2} THEN "base" ELSE "work"
Told(t) == Plain(Shown(trees[t]))

\* What an inventory tells of a path.
Val(files, p) == IF p \in DOMAIN files THEN files[p] ELSE Absent
Inventories   == UNION {[S -> Items] : S \in SUBSET Paths}

\* The trees are trees, and the walk has its shape.
ShapeOK ==
  /\ pc \in {"idle", "open", "walk", "read"} /\ edits \in Nat
  /\ trees = [t \in Trees |-> trees[t]] /\ \A t \in Trees : IsTree(trees[t])
  /\ todo \subseteq Paths /\ read \in Inventories /\ kept \in Seq(Inventories) /\ Len(kept) <= 3
  /\ pc = "idle" => kept = <<>>
  /\ pc \in {"idle", "open"} => read = <<>> /\ todo = {}
  /\ pc = "read" => todo # {} /\ open \in Places /\ open.kind \in {"file", "link"}
  /\ pc # "idle" => Both(trees) \in seen

\* What is to be visited is not read, and not below what else is to be visited.
WalkOK == \A p \in todo : /\ p \notin DOMAIN read /\ Below[p] \cap (DOMAIN read \cup todo) = {}

\* The inventory that is made says nothing more of a path.
Decided(p) == /\ pc \in {"walk", "read"}
              /\ p \notin todo /\ \A q \in todo : p \notin Below[q]

\* A value a path had at a moment of the build; one it had and has no more: it will not have it again.
Was(t, p, v)  == \E s \in seen : Plain(s[t])[p] = v
Left(t, p, v) == Was(t, p, v) /\ Told(t)[p] # v

\* What the first inventory of a tree says was so at the moment s, or is gone; then the second one
\* says another thing.
BaseOK(s) ==
  \A p \in Paths : \/ Plain(s["base"])[p] = Val(kept[1], p)
                   \/ /\ Left("base", p, Val(kept[1], p))
                      /\ Len(kept) = 2 /\ Decided(p) => Val(read, p) # Val(kept[1], p)
                      /\ Len(kept) = 3 => Val(kept[3], p) # Val(kept[1], p)
WorkOK(s) ==
  \A p \in Paths : \/ Plain(s["work"])[p] = Val(kept[2], p)
                   \/ /\ Left("work", p, Val(kept[2], p))
                      /\ Len(kept) = 3 /\ Decided(p) => Val(read, p) # Val(kept[2], p)

WitnessOK ==
  /\ Len(kept) = 1 => \A p \in Paths : Was("base", p, Val(kept[1], p))
  /\ \A p \in Paths : Decided(p) => Was(Current, p, Val(read, p))
  /\ Len(kept) >= 2 => \E s \in seen : BaseOK(s) /\ WorkOK(s)

(***************************************************************************)
(* Trees                                                                   *)
(***************************************************************************)

\* What is not a directory has nothing below it.
LEMMA NothingBelow ==
  ASSUME NEW tree, IsTree(tree), NEW p \in Paths, tree[p].kind # "dir"
  PROVE  \A q \in Below[p] : tree[q].kind = "none"
<1> DEFINE S == {q \in Below[p] : tree[q].kind # "none"}
<1> SUFFICES ASSUME S # {} PROVE FALSE
  OBVIOUS
<1>1. S \subseteq Paths
  BY BelowIsComplete
<1>2. PICK q \in S : \A r \in S : Position[q] <= Position[r]
  BY <1>1, SomeFirst
<1>3. q \in Paths /\ tree[q].kind # "none" /\ tree[Parent[q]].kind = "dir"
  BY <1>1 DEF IsTree
<1>4. Parent[q] \in Below[p]
  BY <1>3, BelowIsComplete
<1>5. Parent[q] \in S
  BY <1>3, <1>4
<1>6. Parent[q] \in Paths /\ Position[Parent[q]] < Position[q]
  BY <1>1, <1>3, <1>5, TreeAssumption
<1>7. Position[q] \in Nat /\ Position[Parent[q]] \in Nat
  BY <1>3, <1>6, TreeAssumption DEF Position, Paths, ToSet
<1> QED
  BY <1>2, <1>5, <1>6, <1>7

\* What is in a directory, at any depth.
Inside(n) == IF n = Root THEN Paths ELSE Below[n]

\* What is inside of a directory is listed, or below what is listed, or is not there.
LEMMA ListingIsComplete ==
  ASSUME NEW tree, IsTree(tree), NEW n \in Nodes,
         NEW C, C = {q \in Paths : Parent[q] = n /\ tree[q].kind # "none"}
  PROVE  \A q \in Inside(n) : q \in C \/ (\E c \in C : q \in Below[c]) \/ tree[q].kind = "none"
<1> DEFINE S == {q \in Inside(n) : ~(q \in C \/ (\E c \in C : q \in Below[c]) \/ tree[q].kind = "none")}
<1> SUFFICES ASSUME S # {} PROVE FALSE
  OBVIOUS
<1>1. Inside(n) \subseteq Paths
  BY BelowIsComplete DEF Inside, Nodes
<1>2. PICK q \in S : \A r \in S : Position[q] <= Position[r]
  BY <1>1, SomeFirst
<1>3. q \in Paths /\ q \notin C /\ ~(\E c \in C : q \in Below[c]) /\ tree[q].kind # "none"
      /\ tree[Parent[q]].kind = "dir"
  BY <1>1 DEF IsTree
<1>4. Parent[q] # n
  BY <1>3
<1>5. Parent[q] \in Inside(n) /\ Parent[q] \in Paths
  BY <1>2, <1>3, <1>4, BelowIsComplete, TreeAssumption DEF Inside, Nodes
<1>6. Parent[q] \notin C /\ \A c \in C : Parent[q] \notin Below[c]
  BY <1>3, <1>5, BelowIsComplete
<1>7. Parent[q] \in S
  BY <1>3, <1>5, <1>6
<1>8. Position[Parent[q]] < Position[q]
  BY <1>3, <1>5, TreeAssumption
<1>9. Position[q] \in Nat /\ Position[Parent[q]] \in Nat
  BY <1>3, <1>5, TreeAssumption DEF Position, Paths, ToSet
<1> QED
  BY <1>2, <1>7, <1>8, <1>9

\* A place with another stamp.
LEMMA StampedIsAPlace ==
  ASSUME NEW place \in Places, NEW n \in Nat
  PROVE  /\ [place EXCEPT !.stamp = n] \in Places
         /\ [place EXCEPT !.stamp = n].kind = place.kind
         /\ [place EXCEPT !.stamp = n].content = place.content
BY DEF Places

\* An edit of a tree gives a tree.
LEMMA EditedIsATree ==
  ASSUME NEW tree, IsTree(tree), NEW p \in Paths, NEW new \in Places, tree[Parent[p]].kind = "dir",
         edits \in Nat
  PROVE  IsTree(Edited(tree, p, new))
<1> DEFINE tree2 == Edited(tree, p, new)
<1>1. \A n \in Nodes : tree[n] \in Places
  BY DEF IsTree
<1>2. Nothing \in Places /\ Nothing.kind = "none"
  BY DEF Nothing, Places
<1>3. edits + 1 \in Nat
  OBVIOUS
<1>4. ASSUME NEW n \in Nodes
      PROVE  /\ tree2[n] \in Places
             /\ n \in Below[p] => tree2[n].kind = "none"
             /\ n # p /\ n \notin Below[p] => tree2[n].kind = tree[n].kind
  <2>1. CASE n = p
    BY <1>3, <2>1, StampedIsAPlace, BelowIsComplete DEF Edited
  <2>2. CASE n # p /\ n \in Below[p]
    BY <1>2, <2>2 DEF Edited
  <2>3. CASE n # p /\ n \notin Below[p] /\ n = Parent[p] /\ tree[p].kind # new.kind
    <3>1. tree2[n] = [tree[n] EXCEPT !.stamp = edits + 1]
      BY <2>3 DEF Edited
    <3> QED
      BY <1>1, <1>3, <2>3, <3>1, StampedIsAPlace
  <2>4. CASE n # p /\ n \notin Below[p] /\ ~(n = Parent[p] /\ tree[p].kind # new.kind)
    BY <1>1, <2>4 DEF Edited
  <2> QED
    BY <2>1, <2>2, <2>3, <2>4
<1>5. tree2 \in [Nodes -> Places]
  BY <1>4 DEF Edited
<1>6. ASSUME NEW q \in Paths, tree2[q].kind # "none" PROVE tree2[Parent[q]].kind = "dir"
  <2>0. q \in Nodes /\ Parent[q] \in Nodes
    BY TreeAssumption DEF Nodes
  <2>1. CASE q = p
    BY <1>4, <2>0, <2>1, BelowIsComplete
  <2>2. CASE q # p
    <3>1. q \notin Below[p]
      BY <1>4, <1>6, <2>0
    <3>2. Parent[q] # p /\ Parent[q] \notin Below[p]
      BY <3>1, BelowIsComplete
    <3>3. tree[q].kind # "none"
      BY <1>4, <1>6, <2>0, <2>2, <3>1
    <3> QED
      BY <1>4, <2>0, <3>2, <3>3 DEF IsTree
  <2> QED
    BY <2>1, <2>2
<1>7. tree2[Root].kind = "dir"
  <2>1. Root \in Nodes /\ Root # p /\ Root \notin Below[p]
    BY BelowIsComplete, TreeAssumption DEF Nodes
  <2> QED
    BY <1>4, <2>1 DEF IsTree
<1> QED
  BY <1>5, <1>6, <1>7 DEF IsTree

\* What an inventory would tell of a path.
LEMMA WhatIsTold ==
  ASSUME NEW t \in Trees, NEW p \in Paths, IsTree(trees[t])
  PROVE  /\ trees[t][p].kind \in {"none", "dir"} => Told(t)[p] = Absent
         /\ trees[t][p].kind \in {"file", "link"} =>
              /\ Told(t)[p] = [kind |-> trees[t][p].kind, content |-> trees[t][p].content]
              /\ Told(t)[p] \in Items
<1>1. p \in Nodes /\ trees[t][p] \in Places
  BY DEF IsTree, Nodes
<1>2. Told(t)[p] = IF trees[t][p].kind = "dir" THEN Absent
                   ELSE [kind |-> trees[t][p].kind, content |-> trees[t][p].content]
  BY <1>1 DEF Told, Plain, Shown, Absent
<1> QED
  BY <1>1, <1>2 DEF Places, Absent, Items

(***************************************************************************)
(* A walk                                                                  *)
(***************************************************************************)

\* A step of a walk: what it decides, is so in the tree.
Observed ==
  \A p \in Paths : Decided(p)' => \/ Decided(p) /\ Val(read', p) = Val(read, p)
                                  \/ Val(read', p) = Told(Current)[p]

\* An inventory that is empty.
LEMMA EmptyIsAnInventory == <<>> \in Inventories /\ DOMAIN <<>> = {}
<1>1. DOMAIN <<>> = {}
  OBVIOUS
<1>2. <<>> = [x \in {} |-> Nothing]
  OBVIOUS
<1>3. <<>> \in [{} -> Items]
  BY <1>2
<1>4. {} \in SUBSET Paths
  OBVIOUS
<1> QED
  BY <1>1, <1>3, <1>4 DEF Inventories

\* The builder waits for a request.
LEMMA InitShape ==
  ASSUME Init
  PROVE  ShapeOK /\ WalkOK
<1>1. trees \in [Trees -> Before \cup After]
  BY DEF Init, Trees
<1>2. \A t \in Trees : IsTree(trees[t])
  BY <1>1, PlaceAssumption
<1>3. trees = [t \in Trees |-> trees[t]]
  BY <1>1
<1>4. read \in Inventories /\ kept \in Seq(Inventories) /\ Len(kept) = 0
  BY EmptyIsAnInventory DEF Init
<1> QED
  BY <1>2, <1>3, <1>4 DEF Init, ShapeOK, WalkOK

\* The steps that keep the trees and what was seen of them.
LEMMA SameTrees ==
  ASSUME ShapeOK, UNCHANGED <<trees, seen, edits>>
  PROVE  /\ edits' \in Nat /\ trees' = [t \in Trees |-> trees'[t]] /\ \A t \in Trees : IsTree(trees[t])'
         /\ pc # "idle" => (Both(trees) \in seen)'
BY DEF ShapeOK, IsTree, Both, Shown

\* A build that stops.
LEMMA StopShape ==
  ASSUME ShapeOK, UNCHANGED <<trees, seen, edits>>, NEW how, Stop(how)
  PROVE  ShapeOK' /\ WalkOK' /\ Observed
<1>1. pc' = "idle" /\ todo' = {} /\ read' = <<>> /\ kept' = <<>>
  BY DEF Stop
<1>2. read' \in Inventories /\ kept' \in Seq(Inventories) /\ Len(kept') = 0
  BY <1>1, EmptyIsAnInventory
<1>3. ShapeOK'
  BY <1>1, <1>2, SameTrees DEF ShapeOK
<1>4. WalkOK'
  BY <1>1 DEF WalkOK
<1>5. Observed
  BY <1>1 DEF Observed, Decided
<1> QED
  BY <1>3, <1>4, <1>5

\* The root is opened: what it does not list is not there.
LEMMA OpenRootShape ==
  ASSUME ShapeOK, WalkOK, OpenRoot
  PROVE  ShapeOK' /\ WalkOK' /\ Observed
<1> DEFINE C == Children(Root)
<1>1. /\ pc = "open" /\ pc' = "walk" /\ todo' = C
      /\ UNCHANGED <<trees, edits, open, read, kept, seen>>
  BY DEF OpenRoot
<1>2. Current \in Trees /\ Tree = trees[Current] /\ IsTree(Tree)
  BY DEF Current, Trees, Tree, ShapeOK
<1>3. C = {q \in Paths : Parent[q] = Root /\ Tree[q].kind # "none"}
  BY DEF Children
<1>4. read = <<>> /\ DOMAIN read = {}
  BY <1>1, EmptyIsAnInventory DEF ShapeOK
<1>5. ShapeOK'
  BY <1>1, <1>3, SameTrees DEF ShapeOK
<1>6. WalkOK'
  <2> SUFFICES ASSUME NEW p \in C PROVE Below[p] \cap C = {}
    BY <1>1, <1>4 DEF WalkOK
  <2>1. \A q \in C : q \notin Below[p]
    BY <1>3, BelowIsComplete, TreeAssumption
  <2> QED
    BY <2>1
<1>7. ASSUME NEW p \in Paths, Decided(p)' PROVE Val(read', p) = Told(Current)[p]
  <2>1. p \notin C /\ \A c \in C : p \notin Below[c]
    BY <1>1, <1>7 DEF Decided
  <2>2. Root \in Nodes /\ p \in Inside(Root)
    BY DEF Nodes, Inside
  <2>3. Tree[p].kind = "none"
    BY <1>2, <1>3, <2>1, <2>2, ListingIsComplete
  <2>4. Told(Current)[p] = Absent
    BY <1>2, <2>3, WhatIsTold
  <2> QED
    BY <1>1, <1>4, <2>4 DEF Val
<1> QED
  BY <1>5, <1>6, <1>7 DEF Observed

\* A path is visited: a directory lists what is in it, and it is not told of.
LEMMA VisitShape ==
  ASSUME ShapeOK, WalkOK, Visit
  PROVE  ShapeOK' /\ WalkOK' /\ Observed
<1> DEFINE p == First
           C == Children(p)
<1>0. UNCHANGED <<trees, edits, seen>> /\ pc = "walk" /\ todo # {}
  BY DEF Visit
<1>1. p \in todo /\ p \in Paths /\ todo \subseteq Paths
  BY <1>0, FirstIsListed DEF ShapeOK
<1>2. Current \in Trees /\ Tree = trees[Current] /\ IsTree(Tree) /\ Tree[p] \in Places
  BY <1>1 DEF Current, Trees, Tree, ShapeOK, IsTree, Nodes
<1>3. ASSUME NEW how, Stop(how) PROVE ShapeOK' /\ WalkOK' /\ Observed
  BY <1>0, <1>3, StopShape
<1>4. CASE /\ Tree[p].kind = "dir" /\ todo' = C \cup Rest /\ UNCHANGED <<pc, open, read, kept>>
  <2>1. C = {q \in Paths : Parent[q] = p /\ Tree[q].kind # "none"} /\ Rest = todo \ {p}
    BY DEF Children, Rest
  <2>2. C \subseteq Below[p] /\ Below[p] \subseteq Paths /\ p \notin Below[p]
    BY <1>1, <2>1, BelowIsComplete
  <2>3. Below[p] \cap (DOMAIN read \cup todo) = {} /\ p \notin DOMAIN read
    BY <1>1 DEF WalkOK
  <2>4. ShapeOK'
    BY <1>0, <1>1, <1>4, <2>1, SameTrees DEF ShapeOK
  <2>5. ASSUME NEW q \in C PROVE q \notin DOMAIN read /\ Below[q] \cap (DOMAIN read \cup C \cup Rest) = {}
    <3>1. q \in Below[p] /\ Below[q] \subseteq Below[p]
      BY <1>1, <2>2, BelowIsComplete
    <3>2. Below[q] \cap C = {}
      BY <1>1, <2>1, <3>1, BelowIsComplete
    <3> QED
      BY <2>1, <2>3, <3>1, <3>2
  <2>6. ASSUME NEW q \in Rest PROVE q \notin DOMAIN read /\ Below[q] \cap (DOMAIN read \cup C \cup Rest) = {}
    <3>1. q \in todo /\ q # p /\ q \notin DOMAIN read /\ Below[q] \cap (DOMAIN read \cup todo) = {}
      BY <2>1 DEF WalkOK
    <3>2. p \notin Below[q] /\ p # q
      BY <1>1, <3>1
    <3>3. \A c \in C : c \notin Below[q]
      BY <1>1, <2>1, <3>1, <3>2, BelowIsComplete
    <3> QED
      BY <2>1, <3>1, <3>3
  <2>7. WalkOK'
    BY <1>4, <2>5, <2>6 DEF WalkOK
  <2>8. ASSUME NEW q \in Paths, Decided(q)'
        PROVE  (Decided(q) /\ Val(read', q) = Val(read, q)) \/ Val(read', q) = Told(Current)[q]
    <3>1. q \notin C /\ q \notin Rest /\ (\A c \in C : q \notin Below[c]) /\ \A c \in Rest : q \notin Below[c]
      BY <1>4, <2>8 DEF Decided
    <3>2. CASE q = p
      <4>1. Told(Current)[q] = Absent
        BY <1>1, <1>2, <1>4, <3>2, WhatIsTold
      <4> QED
        BY <1>4, <2>3, <3>2, <4>1 DEF Val
    <3>3. CASE q \in Below[p]
      <4>1. q \in Inside(p) /\ p \in Nodes
        BY <1>1, <3>3, TreeAssumption DEF Inside, Nodes
      <4>2. Tree[q].kind = "none"
        BY <1>2, <2>1, <3>1, <4>1, ListingIsComplete
      <4>3. Told(Current)[q] = Absent
        BY <1>2, <4>2, WhatIsTold
      <4> QED
        BY <1>4, <2>3, <3>3, <4>3 DEF Val
    <3>4. CASE q # p /\ q \notin Below[p]
      BY <1>0, <1>4, <2>1, <3>1, <3>4 DEF Decided
    <3> QED
      BY <3>2, <3>3, <3>4
  <2> QED
    BY <2>4, <2>7, <2>8 DEF Observed
<1>5. CASE Tree[p].kind \in {"file", "link"} /\ pc' = "read" /\ open' = Tree[p] /\ UNCHANGED <<todo, read, kept>>
  <2>1. ShapeOK'
    BY <1>0, <1>2, <1>5, SameTrees DEF ShapeOK
  <2>2. WalkOK'
    BY <1>5 DEF WalkOK
  <2>3. Observed
    BY <1>0, <1>5 DEF Observed, Decided
  <2> QED
    BY <2>1, <2>2, <2>3
<1> QED
  BY <1>3, <1>4, <1>5 DEF Visit

\* A file or a link was read: it is told of as it is, and nothing is below it.
LEMMA VisitedShape ==
  ASSUME ShapeOK, WalkOK, Visited
  PROVE  ShapeOK' /\ WalkOK' /\ Observed
<1> DEFINE p    == First
           item == [kind |-> open.kind, content |-> open.content]
<1>0. UNCHANGED <<trees, edits, seen>> /\ pc = "read" /\ todo # {}
  BY DEF Visited, ShapeOK
<1>1. p \in todo /\ p \in Paths /\ todo \subseteq Paths
  BY <1>0, FirstIsListed DEF ShapeOK
<1>2. Current \in Trees /\ Tree = trees[Current] /\ IsTree(Tree)
  BY <1>1 DEF Current, Trees, Tree, ShapeOK
<1>3. ASSUME NEW how, Stop(how) PROVE ShapeOK' /\ WalkOK' /\ Observed
  BY <1>0, <1>3, StopShape
<1>4. CASE /\ Tree[p] = open /\ read' = [q \in DOMAIN read \cup {p} |-> IF q = p THEN item ELSE read[q]]
           /\ todo' = Rest /\ pc' = "walk" /\ UNCHANGED kept
  <2>1. Rest = todo \ {p} /\ open.kind \in {"file", "link"} /\ open \in Places
    BY <1>0 DEF Rest, ShapeOK
  <2>2. Told(Current)[p] = item /\ item \in Items
    BY <1>1, <1>2, <1>4, <2>1, WhatIsTold
  <2>3. DOMAIN read' = DOMAIN read \cup {p} /\ \A q \in DOMAIN read' : read'[q] = IF q = p THEN item ELSE read[q]
    BY <1>4
  <2>4. read' \in Inventories
    <3>1. PICK S \in SUBSET Paths : read \in [S -> Items]
      BY DEF ShapeOK, Inventories
    <3>2. read' = [q \in DOMAIN read' |-> read'[q]]
      BY <1>4
    <3>3. read' \in [S \cup {p} -> Items]
      BY <2>2, <2>3, <3>1, <3>2
    <3> QED
      BY <1>1, <3>1, <3>3 DEF Inventories
  <2>5. ShapeOK'
    BY <1>0, <1>1, <1>4, <2>1, <2>4, SameTrees DEF ShapeOK
  <2>6. Below[p] \cap (DOMAIN read \cup todo) = {} /\ p \notin DOMAIN read
    BY <1>1 DEF WalkOK
  <2>7. WalkOK'
    <3> SUFFICES ASSUME NEW q \in Rest
                 PROVE  q \notin DOMAIN read' /\ Below[q] \cap (DOMAIN read' \cup Rest) = {}
      BY <1>4 DEF WalkOK
    <3>1. q \in todo /\ q # p /\ q \notin DOMAIN read /\ Below[q] \cap (DOMAIN read \cup todo) = {}
      BY <2>1 DEF WalkOK
    <3> QED
      BY <1>1, <2>1, <2>3, <3>1
  <2>8. ASSUME NEW q \in Paths, Decided(q)'
        PROVE  (Decided(q) /\ Val(read', q) = Val(read, q)) \/ Val(read', q) = Told(Current)[q]
    <3>1. q \notin Rest /\ \A c \in Rest : q \notin Below[c]
      BY <1>4, <2>8 DEF Decided
    <3>2. CASE q = p
      BY <2>2, <2>3, <3>2 DEF Val
    <3>3. CASE q \in Below[p]
      <4>1. Tree[q].kind = "none"
        BY <1>1, <1>2, <1>4, <2>1, <3>3, NothingBelow
      <4>2. Told(Current)[q] = Absent
        BY <1>2, <4>1, WhatIsTold
      <4>3. q \notin DOMAIN read'
        BY <1>1, <2>3, <2>6, <3>3, BelowIsComplete
      <4> QED
        BY <4>2, <4>3 DEF Val
    <3>4. CASE q # p /\ q \notin Below[p]
      BY <1>0, <2>1, <2>3, <3>1, <3>4 DEF Decided, Val
    <3> QED
      BY <3>2, <3>3, <3>4
  <2> QED
    BY <2>5, <2>7, <2>8 DEF Observed
<1> QED
  BY <1>3, <1>4 DEF Visited

\* Something cannot be read: the build stops.
LEMMA UnreadableShape ==
  ASSUME ShapeOK, WalkOK, Unreadable
  PROVE  /\ ShapeOK' /\ WalkOK' /\ pc # "idle" /\ Stop("unreadable")
         /\ UNCHANGED <<trees, edits, job, manifest, stored, seen>>
<1>1. Stop("unreadable") /\ UNCHANGED <<trees, edits, job, manifest, stored, seen>> /\ pc # "idle"
  BY DEF Unreadable
<1> QED
  BY <1>1, StopShape

(***************************************************************************)
(* The other steps                                                         *)
(***************************************************************************)

\* Others edit a tree: it stays a tree, and the builder is where it was.
LEMMA EditShape ==
  ASSUME ShapeOK, WalkOK, Edit
  PROVE  ShapeOK' /\ WalkOK'
<1>1. PICK t \in Trees, p \in Paths, new \in Puts :
        /\ trees[t][Parent[p]].kind = "dir"
        /\ trees' = [trees EXCEPT ![t] = Edited(@, p, new)]
  BY DEF Edit
<1>2. new \in Places /\ edits \in Nat /\ edits' = edits + 1 /\ IsTree(trees[t])
  BY PlaceAssumption DEF Edit, ShapeOK
<1>3. IsTree(Edited(trees[t], p, new))
  BY <1>1, <1>2, EditedIsATree
<1>4. trees' = [u \in Trees |-> IF u = t THEN Edited(trees[t], p, new) ELSE trees[u]]
  BY <1>1 DEF ShapeOK
<1>5. \A u \in Trees : IsTree(trees'[u])
  BY <1>3, <1>4 DEF ShapeOK
<1>6. trees' = [u \in Trees |-> trees'[u]]
  BY <1>4
<1>7. UNCHANGED <<pc, todo, open, read, kept>> /\ (pc # "idle" => Both(trees') \in seen')
  BY DEF Edit, walk
<1>8. edits' \in Nat
  BY <1>2
<1>9. \A u \in Trees : IsTree(trees[u])'
  BY <1>5 DEF IsTree
<1>10. pc' # "idle" => (Both(trees) \in seen)'
  BY <1>7 DEF Both, Shown
<1>11. ShapeOK'
  BY <1>6, <1>7, <1>8, <1>9, <1>10 DEF ShapeOK
<1>12. WalkOK'
  BY <1>7 DEF WalkOK
<1> QED
  BY <1>11, <1>12

\* A request.
LEMMA RequestShape ==
  ASSUME ShapeOK, WalkOK, Request
  PROVE  ShapeOK' /\ WalkOK'
<1>1. /\ pc = "idle" /\ pc' = "open" /\ seen' = {Both(trees)}
      /\ UNCHANGED <<trees, edits, todo, open, read, kept>>
  BY DEF Request, walk
<1>2. (Both(trees) \in seen)'
  BY <1>1 DEF Both, Shown
<1>3. read = <<>> /\ todo = {}
  BY <1>1 DEF ShapeOK
<1>4. /\ edits' \in Nat /\ trees' = [t \in Trees |-> trees'[t]] /\ \A t \in Trees : IsTree(trees[t])'
  BY <1>1 DEF ShapeOK, IsTree
<1>5. ShapeOK'
  BY <1>1, <1>2, <1>3, <1>4 DEF ShapeOK
<1> QED
  BY <1>1, <1>3, <1>5 DEF WalkOK

\* An inventory is complete.
LEMMA ListedShape ==
  ASSUME ShapeOK, WalkOK, Listed
  PROVE  ShapeOK' /\ WalkOK'
<1> DEFINE done == Append(kept, read)
<1>0. UNCHANGED <<trees, edits, seen>> /\ pc = "walk" /\ todo = {}
  BY DEF Listed
<1>1. ASSUME NEW how, Stop(how) PROVE ShapeOK' /\ WalkOK'
  BY <1>0, <1>1, StopShape
<1>2. CASE /\ Len(done) < 4 /\ pc' = "open" /\ kept' = done /\ read' = <<>> /\ UNCHANGED <<todo, open>>
  <2>1. kept' \in Seq(Inventories) /\ Len(kept') <= 3
    BY <1>2 DEF ShapeOK
  <2>2. ShapeOK'
    BY <1>0, <1>2, <2>1, EmptyIsAnInventory, SameTrees DEF ShapeOK
  <2> QED
    BY <1>0, <1>2, <2>2 DEF WalkOK
<1> QED
  BY <1>1, <1>2 DEF Listed

(***************************************************************************)
(* One moment                                                              *)
(***************************************************************************)

\* The inventories with one more.
LEMMA OneMore ==
  ASSUME ShapeOK
  PROVE  /\ Len(kept) \in 0..3 /\ Len(Append(kept, read)) = Len(kept) + 1
         /\ Append(kept, read)[Len(kept) + 1] = read
         /\ \A k \in 1..Len(kept) : kept[k] \in Inventories /\ Append(kept, read)[k] = kept[k]
<1>1. kept \in Seq(Inventories) /\ read \in Inventories /\ Len(kept) <= 3
  BY DEF ShapeOK
<1>2. Len(kept) \in Nat
  BY <1>1
<1>3. Len(kept) \in 0..3
  <2>1. Len(kept) <= 3
    BY <1>1
  <2>2. \A n \in Nat : n <= 3 => n \in 0..3
    OBVIOUS
  <2> QED
    BY <1>2, <2>1, <2>2
<1>4. Len(Append(kept, read)) = Len(kept) + 1 /\ Append(kept, read)[Len(kept) + 1] = read
  BY <1>1
<1>5. \A k \in 1..Len(kept) : kept[k] \in Inventories /\ Append(kept, read)[k] = kept[k]
  BY <1>1
<1> QED
  BY <1>3, <1>4, <1>5

\* A builder that waits has no inventories.
LEMMA IdleWitness ==
  ASSUME pc' = "idle", kept' = <<>>
  PROVE  WitnessOK'
BY DEF WitnessOK, Decided

\* What was so at a moment of the build stays so; what is gone does not come back.
LEMMA NothingComesBack ==
  ASSUME ShapeOK, Edit, ~Restores, pc # "idle"
  PROVE  /\ \A t \in Trees, p \in Paths : \A v : Left(t, p, v) => Plain(Shown(trees'[t]))[p] # v
         /\ seen \subseteq seen'
<1>1. PICK t \in Trees, q \in Paths, new \in Puts :
        /\ PutsNothingBack(t, Edited(trees[t], q, new))
        /\ trees' = [trees EXCEPT ![t] = Edited(@, q, new)]
  BY DEF Edit
<1>2. seen' = seen \cup {Both(trees')}
  BY DEF Edit
<1> DEFINE tree2 == Edited(trees[t], q, new)
<1>3. trees' = [u \in Trees |-> IF u = t THEN tree2 ELSE trees[u]]
  BY <1>1 DEF ShapeOK
<1> HIDE DEF tree2
<1>4. ASSUME NEW u \in Trees, NEW p \in Paths, NEW v, Left(u, p, v)
      PROVE  Plain(Shown(trees'[u]))[p] # v
  <2>1. Plain(Shown(trees[u]))[p] # v /\ \E s \in seen : Plain(s[u])[p] = v
    BY <1>4 DEF Left, Was, Told
  <2>2. CASE u = t
    <3>1. trees'[u] = tree2
      BY <1>3, <2>2
    <3>2. \/ Plain(Shown(tree2))[p] = Plain(Shown(trees[t]))[p]
          \/ \A s \in seen : Plain(s[t])[p] # Plain(Shown(tree2))[p]
      BY <1>1 DEF PutsNothingBack, tree2
    <3> QED
      BY <2>1, <2>2, <3>1, <3>2
  <2>3. CASE u # t
    BY <1>3, <2>1, <2>3
  <2> QED
    BY <2>2, <2>3
<1> QED
  BY <1>2, <1>4

\* The edits of others.
LEMMA EditWitness ==
  ASSUME ShapeOK, WitnessOK, Edit, ~Restores
  PROVE  WitnessOK'
<1>1. UNCHANGED <<pc, todo, read, kept>>
  BY DEF Edit, walk
<1>2. CASE pc = "idle"
  BY <1>1, <1>2, IdleWitness DEF ShapeOK
<1>3. CASE pc # "idle"
  <2>1. \A p : Decided(p)' <=> Decided(p)
    BY <1>1 DEF Decided
  <2>2. \A t \in Trees, p \in Paths : \A v : Was(t, p, v) => \E s \in seen' : Plain(s[t])[p] = v
    BY <1>3, NothingComesBack DEF Was
  <2>3. "base" \in Trees /\ "work" \in Trees /\ Current \in Trees /\ Current' = Current
    BY <1>1 DEF Trees, Current
  <2>4. \A t \in Trees, p \in Paths : \A v :
          Left(t, p, v) => (\E s \in seen' : Plain(s[t])[p] = v) /\ Plain(Shown(trees'[t]))[p] # v
    BY <1>3, <2>2, NothingComesBack DEF Left
  <2>5. Len(kept') = 1 => \A p \in Paths : Was("base", p, Val(kept[1], p))'
    BY <1>1, <2>2, <2>3 DEF WitnessOK, Was, Val
  <2>6. ASSUME NEW p \in Paths, Decided(p)' PROVE Was(Current, p, Val(read, p))'
    <3>1. Was(Current, p, Val(read, p))
      BY <2>1, <2>6 DEF WitnessOK
    <3> QED
      BY <1>1, <2>2, <2>3, <3>1 DEF Was, Val
  <2>7. ASSUME Len(kept') >= 2 PROVE \E s \in seen' : BaseOK(s)' /\ WorkOK(s)'
    <3>1. PICK s \in seen : BaseOK(s) /\ WorkOK(s)
      BY <1>1, <2>7 DEF WitnessOK
    <3>2. BaseOK(s)'
      <4> SUFFICES ASSUME NEW p \in Paths, Plain(s["base"])[p] # Val(kept[1], p)
                   PROVE  /\ Left("base", p, Val(kept[1], p))'
                          /\ Len(kept') = 2 /\ Decided(p)' => Val(read', p) # Val(kept'[1], p)
                          /\ Len(kept') = 3 => Val(kept'[3], p) # Val(kept'[1], p)
        BY <1>1 DEF BaseOK, Val
      <4>1. /\ Left("base", p, Val(kept[1], p))
            /\ Len(kept) = 2 /\ Decided(p) => Val(read, p) # Val(kept[1], p)
            /\ Len(kept) = 3 => Val(kept[3], p) # Val(kept[1], p)
        BY <3>1 DEF BaseOK
      <4>2. (\E u \in seen' : Plain(u["base"])[p] = Val(kept[1], p)) /\ Plain(Shown(trees'["base"]))[p] # Val(kept[1], p)
        BY <2>3, <2>4, <4>1
      <4>3. Val(kept[1], p)' = Val(kept[1], p)
        BY <1>1 DEF Val
      <4>4. Left("base", p, Val(kept[1], p))'
        BY <4>2, <4>3 DEF Left, Was, Told
      <4> QED
        BY <1>1, <2>1, <4>1, <4>4
    <3>3. WorkOK(s)'
      <4> SUFFICES ASSUME NEW p \in Paths, Plain(s["work"])[p] # Val(kept[2], p)
                   PROVE  /\ Left("work", p, Val(kept[2], p))'
                          /\ Len(kept') = 3 /\ Decided(p)' => Val(read', p) # Val(kept'[2], p)
        BY <1>1 DEF WorkOK, Val
      <4>1. /\ Left("work", p, Val(kept[2], p))
            /\ Len(kept) = 3 /\ Decided(p) => Val(read, p) # Val(kept[2], p)
        BY <3>1 DEF WorkOK
      <4>2. (\E u \in seen' : Plain(u["work"])[p] = Val(kept[2], p)) /\ Plain(Shown(trees'["work"]))[p] # Val(kept[2], p)
        BY <2>3, <2>4, <4>1
      <4>3. Val(kept[2], p)' = Val(kept[2], p)
        BY <1>1 DEF Val
      <4>4. Left("work", p, Val(kept[2], p))'
        BY <4>2, <4>3 DEF Left, Was, Told
      <4> QED
        BY <1>1, <2>1, <4>1, <4>4
    <3>4. s \in seen'
      BY <1>3, NothingComesBack
    <3> QED
      BY <3>2, <3>3, <3>4
  <2> QED
    BY <2>5, <2>6, <2>7 DEF WitnessOK
<1> QED
  BY <1>2, <1>3

\* A step of a walk.
LEMMA WalkWitness ==
  ASSUME ShapeOK, WitnessOK, Observed, UNCHANGED <<trees, seen, kept>>, pc # "idle"
  PROVE  WitnessOK'
<1>1. Both(trees) \in seen /\ Current \in Trees /\ Current' = Current
  BY DEF ShapeOK, Current, Trees
<1>2. \A t \in Trees, p \in Paths : Told(t)[p] = Plain(Both(trees)[t])[p]
  BY DEF Told, Both
<1>3. \A t, p, v : /\ Was(t, p, v) <=> \E s \in seen' : Plain(s[t])[p] = v
                   /\ Left(t, p, v) <=> (\E s \in seen' : Plain(s[t])[p] = v) /\ Plain(Shown(trees'[t]))[p] # v
  BY DEF Was, Left, Told
<1>4. Len(kept') = 1 => \A p \in Paths : Was("base", p, Val(kept[1], p))'
  BY <1>3 DEF WitnessOK, Was, Val
<1>5. ASSUME NEW p \in Paths, Decided(p)' PROVE Was(Current, p, Val(read, p))'
  <2>1. \/ Decided(p) /\ Val(read', p) = Val(read, p)
        \/ Val(read', p) = Told(Current)[p]
    BY <1>5 DEF Observed
  <2>2. Was(Current, p, Val(read', p))
    BY <1>1, <1>2, <2>1 DEF WitnessOK, Was
  <2> QED
    BY <1>1, <1>3, <2>2 DEF Was, Val
<1>6. ASSUME Len(kept') >= 2 PROVE \E s \in seen' : BaseOK(s)' /\ WorkOK(s)'
  <2>1. PICK s \in seen : BaseOK(s) /\ WorkOK(s)
    BY <1>6 DEF WitnessOK
  <2>2. ASSUME NEW p \in Paths, NEW v, Left(Current, p, v), Decided(p) => Val(read, p) # v, Decided(p)'
        PROVE  Val(read', p) # v
    BY <2>2 DEF Observed, Left
  <2>3. BaseOK(s)'
    <3> SUFFICES ASSUME NEW p \in Paths, Plain(s["base"])[p] # Val(kept[1], p)
                 PROVE  /\ Left("base", p, Val(kept[1], p))'
                        /\ Len(kept') = 2 /\ Decided(p)' => Val(read', p) # Val(kept'[1], p)
                        /\ Len(kept') = 3 => Val(kept'[3], p) # Val(kept'[1], p)
      BY DEF BaseOK, Val
    <3>1. /\ Left("base", p, Val(kept[1], p))
          /\ Len(kept) = 2 /\ Decided(p) => Val(read, p) # Val(kept[1], p)
          /\ Len(kept) = 3 => Val(kept[3], p) # Val(kept[1], p)
      BY <2>1 DEF BaseOK
    <3>2. Left("base", p, Val(kept[1], p))'
      BY <1>3, <3>1 DEF Left, Was, Told, Val
    <3>3. Len(kept) = 2 => Current = "base"
      BY DEF Current
    <3> QED
      BY <2>2, <3>1, <3>2, <3>3
  <2>4. WorkOK(s)'
    <3> SUFFICES ASSUME NEW p \in Paths, Plain(s["work"])[p] # Val(kept[2], p)
                 PROVE  /\ Left("work", p, Val(kept[2], p))'
                        /\ Len(kept') = 3 /\ Decided(p)' => Val(read', p) # Val(kept'[2], p)
      BY DEF WorkOK, Val
    <3>1. /\ Left("work", p, Val(kept[2], p))
          /\ Len(kept) = 3 /\ Decided(p) => Val(read, p) # Val(kept[2], p)
      BY <2>1 DEF WorkOK
    <3>2. Left("work", p, Val(kept[2], p))'
      BY <1>3, <3>1 DEF Left, Was, Told, Val
    <3>3. Len(kept) = 3 => Current = "work"
      BY DEF Current
    <3> QED
      BY <2>2, <3>1, <3>2, <3>3
  <2> QED
    BY <2>1, <2>3, <2>4
<1> QED
  BY <1>4, <1>5, <1>6 DEF WitnessOK

\* An inventory that is complete decided every path. When it is the second one, the moment is now.
LEMMA ListedWitness ==
  ASSUME ShapeOK, WitnessOK, Listed, pc' = "open", Len(kept) \in 0..2, Len(kept') = Len(kept) + 1,
         kept'[Len(kept) + 1] = read, \A k \in 1..Len(kept) : kept'[k] = kept[k]
  PROVE  WitnessOK'
<1>0. PICK now \in seen : now = Both(trees)
  BY DEF Listed, ShapeOK
<1>1. UNCHANGED <<trees, seen>> /\ pc = "walk" /\ todo = {}
  BY DEF Listed
<1>2. \A p : Decided(p) /\ ~Decided(p)'
  BY <1>1 DEF Decided
<1>3. \A p \in Paths : Was(Current, p, Val(read, p))
  BY <1>2 DEF WitnessOK
<1>5. \A t, p, v : /\ Was(t, p, v) <=> \E s \in seen' : Plain(s[t])[p] = v
                   /\ Left(t, p, v) <=> (\E s \in seen' : Plain(s[t])[p] = v) /\ Plain(Shown(trees'[t]))[p] # v
  BY <1>1 DEF Was, Left, Told
<1>6. ASSUME Len(kept') = 1 PROVE \A p \in Paths : Was("base", p, Val(kept[1], p))'
  <2>1. Current = "base" /\ kept'[1] = read
    BY <1>6 DEF Current
  <2> SUFFICES ASSUME NEW p \in Paths PROVE Was("base", p, Val(kept[1], p))'
    OBVIOUS
  <2>2. Was("base", p, Val(read, p))
    BY <1>3, <2>1
  <2>3. \E s \in seen' : Plain(s["base"])[p] = Val(read, p)
    BY <1>5, <2>2
  <2>4. Val(kept[1], p)' = Val(read, p)
    BY <2>1 DEF Val
  <2> QED
    BY <2>3, <2>4 DEF Was
<1>7. ASSUME Len(kept') >= 2 PROVE \E s \in seen' : BaseOK(s)' /\ WorkOK(s)'
  <2>1. CASE Len(kept') = 2
    <3>0. Len(kept) = 1
      BY <2>1
    <3>1. Current = "work" /\ kept'[1] = kept[1] /\ kept'[2] = read /\ Len(kept) = 1
      <4>1. kept'[2] = read /\ 1 \in 1..Len(kept)
        BY <3>0
      <4>2. kept'[1] = kept[1]
        BY <4>1
      <4>3. Current = "work"
        BY <3>0 DEF Current
      <4> QED
        BY <3>0, <4>1, <4>2, <4>3
    <3>2. \A p \in Paths : Was("base", p, Val(kept[1], p))
      BY <3>1 DEF WitnessOK
    <3>3. \A p \in Paths : Was("work", p, Val(read, p))
      BY <1>3, <3>1
    <3>4. \A t \in Trees, p \in Paths : Told(t)[p] = Plain(now[t])[p]
      BY <1>0 DEF Told, Both
    <3>5. "base" \in Trees /\ "work" \in Trees
      BY DEF Trees
    <3>6. \A p \in Paths : \/ Plain(now["base"])[p] = Val(kept[1], p)
                           \/ Left("base", p, Val(kept[1], p))
      BY <3>2, <3>4, <3>5 DEF Left
    <3>7. \A p \in Paths : \/ Plain(now["work"])[p] = Val(read, p)
                           \/ Left("work", p, Val(read, p))
      BY <3>3, <3>4, <3>5 DEF Left
    <3>8. BaseOK(now)'
      <4> SUFFICES ASSUME NEW p \in Paths, Plain(now["base"])[p] # Val(kept[1], p)
                   PROVE  Left("base", p, Val(kept[1], p))'
        BY <1>2, <2>1, <3>1 DEF BaseOK, Val
      <4>1. Left("base", p, Val(kept[1], p))
        BY <3>6
      <4>2. (\E s \in seen' : Plain(s["base"])[p] = Val(kept[1], p)) /\ Plain(Shown(trees'["base"]))[p] # Val(kept[1], p)
        BY <1>5, <4>1
      <4>3. Val(kept[1], p)' = Val(kept[1], p)
        BY <3>1 DEF Val
      <4> QED
        BY <4>2, <4>3 DEF Left, Was, Told
    <3>9. WorkOK(now)'
      <4> SUFFICES ASSUME NEW p \in Paths, Plain(now["work"])[p] # Val(read, p)
                   PROVE  Left("work", p, Val(kept[2], p))'
        BY <1>2, <2>1, <3>1 DEF WorkOK, Val
      <4>1. Left("work", p, Val(read, p))
        BY <3>7
      <4>2. (\E s \in seen' : Plain(s["work"])[p] = Val(read, p)) /\ Plain(Shown(trees'["work"]))[p] # Val(read, p)
        BY <1>5, <4>1
      <4>3. Val(kept[2], p)' = Val(read, p)
        BY <3>1 DEF Val
      <4> QED
        BY <4>2, <4>3 DEF Left, Was, Told
    <3> QED
      BY <1>1, <3>8, <3>9
  <2>2. CASE Len(kept') = 3
    <3>0. Len(kept) = 2
      BY <2>2
    <3>1. kept'[1] = kept[1] /\ kept'[2] = kept[2] /\ kept'[3] = read /\ Len(kept) = 2
      <4>1. kept'[3] = read /\ 1 \in 1..Len(kept) /\ 2 \in 1..Len(kept)
        BY <3>0
      <4>2. kept'[1] = kept[1] /\ kept'[2] = kept[2]
        BY <4>1
      <4> QED
        BY <3>0, <4>1, <4>2
    <3>2. PICK s \in seen : BaseOK(s) /\ WorkOK(s)
      BY <3>1 DEF WitnessOK
    <3>3. BaseOK(s)'
      <4> SUFFICES ASSUME NEW p \in Paths, Plain(s["base"])[p] # Val(kept[1], p)
                   PROVE  Left("base", p, Val(kept[1], p))' /\ Val(kept'[3], p) # Val(kept'[1], p)
        BY <1>2, <2>2, <3>1 DEF BaseOK, Val
      <4>1. Left("base", p, Val(kept[1], p)) /\ Val(read, p) # Val(kept[1], p)
        BY <1>2, <3>1, <3>2 DEF BaseOK
      <4>2. (\E t \in seen' : Plain(t["base"])[p] = Val(kept[1], p)) /\ Plain(Shown(trees'["base"]))[p] # Val(kept[1], p)
        BY <1>5, <4>1
      <4>3. Val(kept[1], p)' = Val(kept[1], p) /\ Val(kept'[1], p) = Val(kept[1], p) /\ Val(kept'[3], p) = Val(read, p)
        BY <3>1 DEF Val
      <4> QED
        BY <4>1, <4>2, <4>3 DEF Left, Was, Told
    <3>4. WorkOK(s)'
      <4> SUFFICES ASSUME NEW p \in Paths, Plain(s["work"])[p] # Val(kept[2], p)
                   PROVE  Left("work", p, Val(kept[2], p))'
        BY <1>2, <2>2, <3>1 DEF WorkOK, Val
      <4>1. Left("work", p, Val(kept[2], p))
        BY <3>2 DEF WorkOK
      <4>2. (\E t \in seen' : Plain(t["work"])[p] = Val(kept[2], p)) /\ Plain(Shown(trees'["work"]))[p] # Val(kept[2], p)
        BY <1>5, <4>1
      <4>3. Val(kept[2], p)' = Val(kept[2], p)
        BY <3>1 DEF Val
      <4> QED
        BY <4>2, <4>3 DEF Left, Was, Told
    <3> QED
      BY <1>1, <3>2, <3>3, <3>4
  <2> QED
    BY <1>7, <2>1, <2>2
<1>8. \A p \in Paths : Decided(p)' => Was(Current, p, Val(read, p))'
  BY <1>2
<1> QED
  BY <1>6, <1>7, <1>8 DEF WitnessOK

(***************************************************************************)
(* The manifest                                                            *)
(***************************************************************************)

\* Applying the entries of two inventories to what the first one tells gives what the second tells.
LEMMA EntriesAreTheDifference ==
  ASSUME NEW b \in Inventories, NEW w \in Inventories, NEW base, NEW work,
         base = [p \in Paths |-> Val(b, p)], work = [p \in Paths |-> Val(w, p)]
  PROVE  /\ Applied(Entries(b, w), base) = work
         /\ \A e \in Entries(b, w) : base[e.path] = [kind |-> e.before.kind, content |-> e.before.content]
<1>1. /\ DOMAIN b \subseteq Paths /\ DOMAIN w \subseteq Paths
      /\ \A p \in DOMAIN b : b[p] \in Items
      /\ \A p \in DOMAIN w : w[p] \in Items
  BY DEF Inventories
<1>2. \A item \in Items : item = [kind |-> item.kind, content |-> item.content]
  BY DEF Items
<1>3. [kind |-> Nothing.kind, content |-> Nothing.content] = Absent
  BY DEF Nothing, Absent
<1>4. \A p \in Paths : /\ Entry(b, w, p).path = p
                       /\ Entry(b, w, p).before = IF p \in DOMAIN b THEN b[p] ELSE Nothing
                       /\ Entry(b, w, p).after = IF p \in DOMAIN w THEN w[p] ELSE Nothing
  BY DEF Entry
<1>5. \A e \in Entries(b, w) : e.path \in Paths /\ e = Entry(b, w, e.path) /\ e.path \in Changes(b, w)
  BY <1>1, <1>4 DEF Entries, Changes
<1>6. \A p \in Changes(b, w) : p \in Paths /\ Entry(b, w, p) \in Entries(b, w)
  BY <1>1 DEF Entries, Changes
<1> DEFINE entries == Entries(b, w)
           after   == [p \in Paths |-> IF \E e \in entries : e.path = p
                                       THEN (CHOOSE e \in entries : e.path = p).after ELSE base[p]]
<1>7. Applied(entries, base) = [p \in Paths |-> [kind |-> after[p].kind, content |-> after[p].content]]
  BY DEF Applied
<1> HIDE DEF entries
<1>8. ASSUME NEW p \in Paths PROVE [kind |-> after[p].kind, content |-> after[p].content] = Val(w, p)
  <2>1. CASE p \in Changes(b, w)
    <3>1. Entry(b, w, p) \in entries /\ Entry(b, w, p).path = p /\ \A e \in entries : e.path = p => e = Entry(b, w, p)
      BY <1>4, <1>5, <1>6, <2>1 DEF entries
    <3>2. (CHOOSE e \in entries : e.path = p) = Entry(b, w, p)
      BY <3>1
    <3>3. after[p] = Entry(b, w, p).after
      BY <3>1, <3>2
    <3>4. after[p] = IF p \in DOMAIN w THEN w[p] ELSE Nothing
      BY <1>4, <3>3
    <3> HIDE DEF after
    <3> QED
      BY <1>1, <1>2, <1>3, <3>4 DEF Val
  <2>2. CASE p \notin Changes(b, w)
    <3>1. after[p] = base[p]
      BY <1>5, <2>2 DEF entries
    <3>2. Val(b, p) = Val(w, p) /\ base[p] = Val(b, p)
      BY <2>2 DEF Val, Changes
    <3>3. Val(w, p) = [kind |-> Val(w, p).kind, content |-> Val(w, p).content]
      BY <1>1, <1>2 DEF Val, Absent
    <3> HIDE DEF after
    <3> QED
      BY <3>1, <3>2, <3>3
  <2> QED
    BY <2>1, <2>2
<1>9. Applied(entries, base) = work
  <2> HIDE DEF after
  <2> QED
    BY <1>7, <1>8
<1>10. ASSUME NEW e \in Entries(b, w) PROVE base[e.path] = [kind |-> e.before.kind, content |-> e.before.content]
  <2>1. e.path \in Paths /\ e.before = IF e.path \in DOMAIN b THEN b[e.path] ELSE Nothing
    BY <1>4, <1>5
  <2> QED
    BY <1>1, <1>2, <1>3, <2>1 DEF Val
<1> QED
  BY <1>9, <1>10 DEF entries

\* Four inventories that agree were true at one moment.
LEMMA BuiltOfOneMoment ==
  ASSUME ShapeOK, WitnessOK, Listed, Len(kept) = 3, Settled(Append(kept, read))
  PROVE  \E s \in seen : /\ Plain(s["base"]) = [p \in Paths |-> Val(kept[1], p)]
                         /\ Plain(s["work"]) = [p \in Paths |-> Val(kept[2], p)]
<1> DEFINE four == Append(kept, read)
<1>1. four[1] = kept[1] /\ four[2] = kept[2] /\ four[3] = kept[3] /\ four[4] = read
  BY OneMore
<1>2. kept[3] = kept[1] /\ read = kept[2]
  BY <1>1 DEF Settled
<1>3. \A p : Decided(p)
  BY DEF Listed, Decided
<1>4. PICK s \in seen : BaseOK(s) /\ WorkOK(s)
  BY DEF WitnessOK
<1>5. \A p \in Paths : Plain(s["base"])[p] = Val(kept[1], p)
  BY <1>2, <1>4 DEF BaseOK
<1>6. \A p \in Paths : Plain(s["work"])[p] = Val(kept[2], p)
  BY <1>2, <1>3, <1>4 DEF WorkOK
<1>7. \A tree : Plain(tree) = [p \in Paths |-> Plain(tree)[p]]
  BY DEF Plain
<1> QED
  BY <1>5, <1>6, <1>7

\* How a build that ends well ends.
LEMMA EndedWell ==
  ASSUME ShapeOK, Listed, Ended'
  PROVE  /\ Len(kept) = 3 /\ Settled(Append(kept, read)) /\ UNCHANGED seen
         /\ manifest'.entries = Entries(kept[1], kept[2])
         /\ kept[1] \in Inventories /\ kept[2] \in Inventories
<1> DEFINE done == Append(kept, read)
           m    == Built(done)
           new  == ~job.stored /\ m.entries # {}
<1>1. pc' = "idle" /\ outcome' \in {"stored", "current"} /\ UNCHANGED seen
  BY DEF Ended, Listed
<1>2. Trouble(done) \notin {"stored", "current"}
  BY DEF Trouble
<1>3. ~(Trouble(done) # "none" /\ Stop(Trouble(done)))
  BY <1>1, <1>2 DEF Stop
<1>4. /\ Trouble(done) = "none" /\ Len(done) = 4
      /\ manifest' = IF new THEN m ELSE manifest
      /\ Stop(IF new THEN "stored" ELSE IF ~job.stored THEN "empty"
              ELSE IF m = manifest THEN "current" ELSE "stale")
  BY <1>1, <1>3 DEF Listed
<1>5. outcome' = IF new THEN "stored" ELSE IF ~job.stored THEN "empty" ELSE IF m = manifest THEN "current" ELSE "stale"
  BY <1>4 DEF Stop
<1>6. manifest' = m
  BY <1>1, <1>4, <1>5
<1>7. Settled(done)
  BY <1>4 DEF Trouble
<1>8. Len(kept) = 3 /\ done[1] = kept[1] /\ done[2] = kept[2] /\ kept[1] \in Inventories /\ kept[2] \in Inventories
  BY <1>4, OneMore
<1>9. m.entries = Entries(kept[1], kept[2])
  BY <1>8 DEF Built
<1> QED
  BY <1>1, <1>6, <1>7, <1>8, <1>9

\* The steps that end no build.
LEMMA NotEnded ==
  ASSUME ShapeOK, Request \/ OpenRoot \/ Visit \/ Visited \/ Unreadable
  PROVE  ~Ended'
<1>1. CASE Request \/ OpenRoot
  BY <1>1 DEF Request, OpenRoot, Ended
<1>2. CASE Visit
  BY <1>2 DEF Visit, Stop, Ended
<1>3. CASE Visited \/ Unreadable
  BY <1>3 DEF Visited, Unreadable, Stop, Ended
<1> QED
  BY <1>1, <1>2, <1>3

\* The shape is kept by every step.
LEMMA ShapeStep ==
  ASSUME ShapeOK, WalkOK, [Next]_vars
  PROVE  ShapeOK' /\ WalkOK'
<1>1. CASE UNCHANGED vars
  <2>1. UNCHANGED <<trees, seen, edits, pc, todo, read, kept, open>>
    BY <1>1 DEF vars, walk
  <2>2. ShapeOK'
    BY <2>1, SameTrees DEF ShapeOK
  <2> QED
    BY <2>1, <2>2 DEF WalkOK
<1> QED
  BY <1>1, EditShape, RequestShape, OpenRootShape, VisitShape, VisitedShape, UnreadableShape, ListedShape DEF Next, Over

\* The trees are trees and the walk has its shape, always.
LEMMA ShapeAlways == Spec => [](ShapeOK /\ WalkOK)
<1>1. Init => ShapeOK /\ WalkOK
  BY InitShape
<1>2. ShapeOK /\ WalkOK /\ [Next]_vars => (ShapeOK /\ WalkOK)'
  BY ShapeStep
<1> QED
  BY <1>1, <1>2, PTL DEF Spec

\* The witness is kept by every step.
LEMMA WitnessStep ==
  ASSUME ShapeOK, WalkOK, WitnessOK, ~Restores, [Next]_vars
  PROVE  WitnessOK'
<1>1. CASE Edit
  BY <1>1, EditWitness
<1>2. CASE Request
  <2>1. pc = "idle" /\ pc' = "open" /\ UNCHANGED kept
    BY <1>2 DEF Request, walk
  <2>2. Len(kept') = 0
    BY <2>1 DEF ShapeOK
  <2> QED
    BY <2>1, <2>2 DEF WitnessOK, Decided
<1>3. CASE OpenRoot
  BY <1>3, OpenRootShape, WalkWitness DEF OpenRoot
<1>4. CASE Visit
  <2>1. Observed /\ UNCHANGED <<trees, seen>> /\ pc = "walk"
    BY <1>4, VisitShape DEF Visit
  <2>2. UNCHANGED kept \/ (pc' = "idle" /\ kept' = <<>>)
    BY <1>4 DEF Visit, Stop
  <2> QED
    BY <2>1, <2>2, WalkWitness, IdleWitness
<1>5. CASE Visited
  <2>1. Observed /\ UNCHANGED <<trees, seen>> /\ pc = "read"
    BY <1>5, VisitedShape DEF Visited
  <2>2. UNCHANGED kept \/ (pc' = "idle" /\ kept' = <<>>)
    BY <1>5 DEF Visited, Stop
  <2> QED
    BY <2>1, <2>2, WalkWitness, IdleWitness
<1>6. CASE Listed
  <2>1. CASE pc' = "idle"
    <3>1. kept' = <<>>
      BY <1>6, <2>1 DEF Listed, Stop
    <3> QED
      BY <2>1, <3>1, IdleWitness
  <2>2. CASE pc' # "idle"
    <3>1. pc' = "open" /\ kept' = Append(kept, read) /\ Len(Append(kept, read)) < 4
      BY <1>6, <2>2 DEF Listed, Stop
    <3>2. /\ Len(kept) \in 0..2 /\ Len(kept') = Len(kept) + 1
          /\ kept'[Len(kept) + 1] = read /\ \A k \in 1..Len(kept) : kept'[k] = kept[k]
      BY <3>1, OneMore
    <3> QED
      BY <1>6, <3>1, <3>2, ListedWitness
  <2> QED
    BY <2>1, <2>2
<1>7. CASE UNCHANGED vars
  <2>1. UNCHANGED <<trees, seen, pc, todo, read, kept>>
    BY <1>7 DEF vars, walk
  <2> QED
    BY <2>1 DEF WitnessOK, BaseOK, WorkOK, Left, Was, Told, Current, Decided, Val
<1>8. CASE Unreadable
  BY <1>8, UnreadableShape, IdleWitness DEF Stop
<1> QED
  BY <1>1, <1>2, <1>3, <1>4, <1>5, <1>6, <1>7, <1>8 DEF Next, Over

(***************************************************************************)
(* Limits                                                                  *)
(***************************************************************************)

\* There are as many paths as the order has.
LEMMA PathsAreFinite == IsFiniteSet(Paths)
<1>1. Order \in [1..Len(Order) -> Paths] /\ Len(Order) \in Nat
  BY TreeAssumption
<1>2. \A p \in Paths : \E k \in 1..Len(Order) : Order[k] = p
  BY <1>1 DEF Paths, ToSet
<1>3. Order \in Surjection(1..Len(Order), Paths)
  BY <1>1, <1>2 DEF Surjection
<1> QED
  BY <1>1, <1>3, FS_NatSurjection DEF ExistsSurjection

\* An inventory is of finitely many files, and each of them has a size.
LEMMA FilesAreFinite ==
  ASSUME NEW files \in Inventories
  PROVE  /\ DOMAIN files \subseteq Paths /\ IsFiniteSet(DOMAIN files) /\ Cardinality(DOMAIN files) \in Nat
         /\ \A p \in DOMAIN files : files[p] \in Items /\ Size[files[p].content] \in Nat
<1>1. DOMAIN files \subseteq Paths /\ \A p \in DOMAIN files : files[p] \in Items
  BY DEF Inventories
<1>2. IsFiniteSet(DOMAIN files)
  BY <1>1, PathsAreFinite, FS_Subset
<1>3. Cardinality(DOMAIN files) \in Nat
  BY <1>2, FS_CardinalityType
<1>4. \A p \in DOMAIN files : Size[files[p].content] \in Nat
  BY <1>1, SizeAssumption DEF Items
<1> QED
  BY <1>1, <1>2, <1>3, <1>4

\* The sizes of an inventory add up to a number: the sum of the sizes of its files.
LEMMA TotalIsASum ==
  ASSUME NEW files \in Inventories
  PROVE  \E F, g : /\ \A p \in DOMAIN files : F[p] = Size[files[p].content]
                   /\ Adds(F, DOMAIN files, g) /\ Total(files) = g[DOMAIN files] /\ Total(files) \in Nat
<1> DEFINE F == [p \in DOMAIN files |-> Size[files[p].content]]
<1>1. DOMAIN F = DOMAIN files /\ Total(files) = SumFunction(F)
  BY DEF Total
<1>2. IsFiniteSet(DOMAIN files) /\ \A p \in DOMAIN files : F[p] = Size[files[p].content] /\ F[p] \in Nat
  BY FilesAreFinite
<1> HIDE DEF F
<1>3. PICK g : Adds(F, DOMAIN files, g) /\ SumFunction(F) = g[DOMAIN files]
  BY <1>1, <1>2, SumIsAFold
<1>4. g[DOMAIN files] \in Nat
  BY <1>2, <1>3, SumSteps
<1> QED
  BY <1>1, <1>2, <1>3, <1>4

\* Fewer files have no more bytes.
LEMMA TotalGrows ==
  ASSUME NEW small \in Inventories, NEW large \in Inventories, DOMAIN small \subseteq DOMAIN large,
         \A p \in DOMAIN small : small[p] = large[p]
  PROVE  Total(small) <= Total(large)
<1>1. PICK F, f : /\ \A p \in DOMAIN small : F[p] = Size[small[p].content]
                  /\ Adds(F, DOMAIN small, f) /\ Total(small) = f[DOMAIN small] /\ Total(small) \in Nat
  BY TotalIsASum
<1>2. PICK G, g : /\ \A p \in DOMAIN large : G[p] = Size[large[p].content]
                  /\ Adds(G, DOMAIN large, g) /\ Total(large) = g[DOMAIN large] /\ Total(large) \in Nat
  BY TotalIsASum
<1>3. IsFiniteSet(DOMAIN large) /\ \A p \in DOMAIN large : G[p] \in Nat
  BY <1>2, FilesAreFinite
<1>4. \A p \in DOMAIN small : G[p] = F[p]
  BY <1>1, <1>2
<1>5. g[DOMAIN small] = f[DOMAIN small]
  BY <1>1, <1>2, <1>3, <1>4, SumsAgree
<1>6. g[DOMAIN small] <= g[DOMAIN large]
  BY <1>2, <1>3, SumGrows
<1> QED
  BY <1>1, <1>2, <1>5, <1>6

\* A file more adds its size.
LEMMA TotalOfOneMore ==
  ASSUME NEW files \in Inventories, NEW more \in Inventories, NEW p \in Paths, p \notin DOMAIN files,
         DOMAIN more = DOMAIN files \cup {p}, \A q \in DOMAIN files : files[q] = more[q]
  PROVE  /\ Total(more) = Total(files) + Size[more[p].content] /\ Total(files) \in Nat
         /\ Cardinality(DOMAIN more) = Cardinality(DOMAIN files) + 1
<1>1. PICK F, f : /\ \A q \in DOMAIN files : F[q] = Size[files[q].content]
                  /\ Adds(F, DOMAIN files, f) /\ Total(files) = f[DOMAIN files] /\ Total(files) \in Nat
  BY TotalIsASum
<1>2. PICK G, g : /\ \A q \in DOMAIN more : G[q] = Size[more[q].content]
                  /\ Adds(G, DOMAIN more, g) /\ Total(more) = g[DOMAIN more] /\ Total(more) \in Nat
  BY TotalIsASum
<1>3. IsFiniteSet(DOMAIN more) /\ \A q \in DOMAIN more : G[q] \in Nat
  BY <1>2, FilesAreFinite
<1>4. \A q \in DOMAIN files : G[q] = F[q]
  BY <1>1, <1>2
<1>5. p \in DOMAIN more \ DOMAIN files /\ DOMAIN files \in SUBSET (DOMAIN more)
  OBVIOUS
<1>6. g[DOMAIN files] = f[DOMAIN files]
  <2>1. PICK S : S = DOMAIN more
    OBVIOUS
  <2>2. PICK T : T = DOMAIN files
    OBVIOUS
  <2>3. T \subseteq S
    BY <2>1, <2>2
  <2>4. IsFiniteSet(S) /\ Adds(G, S, g)
    BY <1>2, <1>3, <2>1
  <2>5. Adds(F, T, f) /\ \A x \in T : G[x] = F[x]
    BY <1>1, <1>4, <2>2
  <2>6. g[T] = f[T]
    BY <2>3, <2>4, <2>5, SumsAgree
  <2> QED
    BY <2>2, <2>6
<1>7. g[DOMAIN files \cup {p}] = G[p] + g[DOMAIN files]
  BY <1>2, <1>3, <1>5, SumSteps
<1>8. Cardinality(DOMAIN more) = Cardinality(DOMAIN files) + 1
  BY FilesAreFinite, FS_AddElement
<1>9. G[p] = Size[more[p].content] /\ G[p] \in Nat
  BY <1>2, <1>3, <1>5
<1> QED
  BY <1>1, <1>2, <1>6, <1>7, <1>8, <1>9

\* The entries of two inventories have a size.
LEMMA PatchHasASize ==
  ASSUME NEW b \in Inventories, NEW w \in Inventories
  PROVE  PatchBytes(Entries(b, w)) \in Nat
<1> DEFINE S == Entries(b, w)
           C == Changes(b, w)
           bytes(e) == IF e.operation = "DELETE" THEN 0 ELSE Size[e.after.content]
           F == [e \in S |-> bytes(e)]
           Is(g) == g = [s \in SUBSET S |-> IF s = {} THEN 0 ELSE bytes(CHOOSE x \in s : TRUE) + g[s \ {CHOOSE x \in s : TRUE}]]
           h == CHOOSE g : Is(g)
<1>1. C \subseteq Paths /\ IsFiniteSet(C)
  BY FilesAreFinite, PathsAreFinite, FS_Subset DEF Changes
<1>2. IsFiniteSet(S)
  <2> DEFINE f == [p \in C |-> Entry(b, w, p)]
  <2>1. f \in Surjection(C, S)
    BY DEF Surjection, Entries
  <2> HIDE DEF f, S, C
  <2> QED
    BY <1>1, <2>1, FS_Surjection
<1>3. ASSUME NEW e \in S PROVE F[e] = bytes(e) /\ bytes(e) \in Nat
  <2>1. PICK p \in C : e = Entry(b, w, p)
    BY DEF Entries
  <2>2. e.operation # "DELETE" => e.after \in Items
    <3>1. CASE p \in DOMAIN w
      BY <2>1, <3>1, FilesAreFinite DEF Entry
    <3>2. CASE p \notin DOMAIN w
      BY <2>1, <3>2 DEF Entry, Changes
    <3> QED
      BY <3>1, <3>2
  <2> QED
    BY <2>2, SizeAssumption DEF Items
<1>4. PatchBytes(S) = h[S]
  BY Zenon DEF PatchBytes, MapThenSumSet, MapThenFoldSet
<1>5. \A s \in SUBSET S : s # {} => SomeOf(s) \in S
  BY DEF SomeOf
<1> HIDE DEF S
<1>6. \A s \in SUBSET S : s # {} => bytes(SomeOf(s)) = F[SomeOf(s)]
  BY <1>5
<1> HIDE DEF bytes, F
<1>7. \A g : Is(g) <=> Adds(F, S, g)
  BY <1>6 DEF Adds, SomeOf
<1> HIDE DEF Is
<1>8. \E g : Is(g)
  BY <1>2, <1>7, SumExists
<1>9. Is(h)
  BY Zenon, <1>8
<1>10. h[S] \in Nat
  <2>1. Adds(F, S, h)
    BY <1>7, <1>9
  <2>2. \A e \in S : F[e] \in Nat
    BY <1>3
  <2>3. \A s \in SUBSET S : h[s] \in Nat
    BY <1>2, <2>1, <2>2, SumSteps
  <2> QED
    BY <2>3
<1> QED
  BY <1>4, <1>10 DEF S

\* What an inventory within the limits is, and one that is complete.
Within(files) == /\ Cardinality(DOMAIN files) <= MaxFiles /\ Total(files) <= MaxBytes
                 /\ \A p \in DOMAIN files : Size[files[p].content] <= MaxFileBytes /\ p \notin Refused
Sound(files)  == Within(files) /\ ~KeysCollide(DOMAIN files)

\* The requests and what they have stored.
CountsOK ==
  /\ job \in [verification : 0..MaxRequests, stored : BOOLEAN, since : Nat] /\ job.since <= edits
  /\ edits <= MaxEdits /\ outcome \in Outcomes /\ DOMAIN guard \subseteq Nodes
  /\ IsFiniteSet(stored) /\ Cardinality(stored) <= job.verification
  /\ pc # "idle" => Cardinality(stored) < job.verification
  /\ job.stored \/ outcome \in {"stored", "current"} => stored # {}

\* What is read, kept and stored is within the limits.
WithinOK ==
  /\ Within(read) /\ \A k \in 1..Len(kept) : Sound(kept[k])
  /\ pc = "read" => First \notin Refused
  /\ Len(kept) >= 2 => PatchBytes(Entries(kept[1], kept[2])) <= MaxPatchBytes
  /\ stored # {} => /\ Sound(manifest.base) /\ Sound(manifest.work)
                    /\ PatchBytes(manifest.entries) <= MaxPatchBytes

\* What is above the paths that are listed was opened.
GuardOK ==
  /\ pc \in {"idle", "open"} => guard = <<>>
  /\ pc \in {"walk", "read"} => Root \in DOMAIN guard /\ \A p \in todo : Above[p] \ {p} \subseteq DOMAIN guard

\* As long as nobody edits the trees, the inventories are what is in them.
Quiet == pc # "idle" /\ edits = job.since
QuietOK ==
  Quiet =>
    /\ \A k \in 1..Len(kept) : kept[k] = Files(trees[IF k \in {1, 3} THEN "base" ELSE "work"])
    /\ \A p \in Paths : Decided(p) => Val(read, p) = Told(Current)[p]
    /\ \A d \in DOMAIN guard : guard[d] = Tree[d].stamp /\ Tree[d].kind = "dir"
    /\ \A p \in todo : Tree[p].kind # "none"
    /\ pc = "read" => open = Tree[First]

\* A manifest of trees that were never edited.
StoredOK ==
  edits = 0 /\ stored # {} =>
    LET b == Files(trees["base"])
        w == Files(trees["work"])
    IN  manifest = [verification |-> manifest.verification, base |-> b, work |-> w, entries |-> Entries(b, w)]

\* No inventory yet has no bytes.
LEMMA TotalOfNothing == Within(<<>>)
<1>1. <<>> \in Inventories /\ DOMAIN <<>> = {}
  BY EmptyIsAnInventory
<1>2. PICK F, g : Adds(F, {}, g) /\ Total(<<>>) = g[{}]
  BY <1>1, TotalIsASum
<1>3. g[{}] = 0
  BY <1>2 DEF Adds
<1>4. Cardinality({}) = 0
  BY FS_EmptySet
<1> QED
  BY <1>1, <1>2, <1>3, <1>4, SizeAssumption DEF Within

\* The first request has not come.
LEMMA InitCounts ==
  ASSUME Init
  PROVE  CountsOK /\ WithinOK /\ GuardOK /\ QuietOK /\ StoredOK /\ StableTreesAreBuilt
<1>1. /\ edits = 0 /\ pc = "idle" /\ job = NoJob /\ guard = <<>> /\ stored = {} /\ outcome = "none"
      /\ read = <<>> /\ kept = <<>>
  BY DEF Init
<1>2. job \in [verification : 0..MaxRequests, stored : BOOLEAN, since : Nat] /\ job.since = 0
      /\ job.verification = 0 /\ job.stored = FALSE
  BY <1>1, SizeAssumption DEF NoJob
<1>3. CountsOK
  BY <1>1, <1>2, FS_EmptySet, EmptyIsAnInventory, SizeAssumption DEF CountsOK, Outcomes
<1>4. WithinOK
  <2>1. Len(kept) = 0
    BY <1>1
  <2> QED
    BY <1>1, <2>1, TotalOfNothing DEF WithinOK
<1> QED
  BY <1>1, <1>3, <1>4 DEF GuardOK, QuietOK, Quiet, StoredOK, StableTreesAreBuilt

\* The requests are counted.
LEMMA CountsStep ==
  ASSUME ShapeOK, CountsOK, [Next]_vars
  PROVE  CountsOK'
<1> USE SizeAssumption
<1>1. CASE UNCHANGED vars
  BY <1>1 DEF vars, walk, CountsOK
<1>2. CASE Edit
  <2>1. edits < MaxEdits /\ edits' = edits + 1 /\ UNCHANGED <<pc, job, guard, stored, outcome>>
    BY <1>2 DEF Edit, walk
  <2> QED
    BY <2>1 DEF CountsOK, ShapeOK
<1>3. CASE Request
  <2>1. PICK preview \in BOOLEAN :
          /\ preview => stored # {}
          /\ job' = [verification |-> job.verification + 1, stored |-> preview, since |-> edits]
    BY <1>3 DEF Request
  <2>2. pc = "idle" /\ job.verification < MaxRequests /\ outcome' = "none" /\ UNCHANGED <<edits, guard, stored>>
    BY <1>3 DEF Request, walk
  <2>3. job'.verification = job.verification + 1 /\ job'.stored = preview /\ job'.since = edits
    BY <2>1
  <2>4. job' \in [verification : 0..MaxRequests, stored : BOOLEAN, since : Nat]
    <3>1. job.verification + 1 \in 0..MaxRequests /\ edits \in Nat
      BY <2>2 DEF CountsOK, ShapeOK
    <3> QED
      BY <2>1, <3>1
  <2>5. Cardinality(stored) \in Nat /\ Cardinality(stored) <= job.verification /\ job.verification \in Nat
    BY FS_CardinalityType DEF CountsOK
  <2>6. edits <= edits
    BY DEF ShapeOK
  <2> QED
    BY <2>1, <2>2, <2>3, <2>4, <2>5, <2>6 DEF CountsOK, Outcomes
<1>4. CASE OpenRoot \/ Visit \/ Visited \/ Unreadable
  <2>1. UNCHANGED <<job, edits, stored>> /\ pc # "idle"
    BY <1>4 DEF OpenRoot, Visit, Visited, Unreadable
  <2>2. outcome' \in {"changed", "limit", "refused", "unreadable"} \/ UNCHANGED outcome
    BY <1>4 DEF OpenRoot, Visit, Visited, Unreadable, Stop
  <2>3. DOMAIN guard' \subseteq Nodes
    <3>1. CASE UNCHANGED guard
      BY <3>1 DEF CountsOK
    <3>2. CASE guard' = <<>>
      BY <3>2, EmptyIsAnInventory
    <3>3. CASE Opens(Root)
      BY <3>3 DEF Opens, Nodes, CountsOK
    <3>4. CASE Visit /\ Opens(First)
      <4>1. First \in Nodes
        BY <3>4, FirstIsListed DEF Visit, Nodes, ShapeOK
      <4> QED
        BY <3>4, <4>1 DEF Opens, CountsOK
    <3> QED
      BY <1>4, <3>1, <3>2, <3>3, <3>4 DEF OpenRoot, Visit, Visited, Unreadable, Stop
  <2> QED
    BY <2>1, <2>2, <2>3 DEF CountsOK, Outcomes
<1>5. CASE Listed
  <2> DEFINE done == Append(kept, read)
             m    == Built(done)
             new  == ~job.stored /\ m.entries # {}
  <2>1. UNCHANGED <<job, edits>> /\ pc = "walk"
    BY <1>5 DEF Listed
  <2>2. guard' = <<>> /\ DOMAIN guard' = {}
    BY <1>5, EmptyIsAnInventory DEF Listed, Stop
  <2>3. Cardinality(stored) \in Nat /\ Cardinality(stored) < job.verification /\ job.verification \in Nat
    BY <2>1, FS_CardinalityType DEF CountsOK
  <2>4. CASE UNCHANGED stored /\ (outcome' \in {"changed", "limit", "refused"} \/ UNCHANGED outcome)
    BY <2>1, <2>2, <2>3, <2>4 DEF CountsOK, Outcomes
  <2>5. CASE /\ stored' = IF new THEN stored \cup {m} ELSE stored
             /\ outcome' = IF new THEN "stored" ELSE IF ~job.stored THEN "empty"
                           ELSE IF m = manifest THEN "current" ELSE "stale"
             /\ pc' = "idle"
    <3> HIDE DEF m
    <3>0. IsFiniteSet(stored)
      BY DEF CountsOK
    <3>1. IsFiniteSet(stored') /\ Cardinality(stored') <= job.verification
      <4>0. /\ IsFiniteSet(stored \cup {m})
            /\ Cardinality(stored \cup {m}) = IF m \in stored THEN Cardinality(stored) ELSE Cardinality(stored) + 1
        BY <3>0, FS_AddElement, Zenon
      <4>1. IsFiniteSet(stored \cup {m}) /\ Cardinality(stored \cup {m}) <= Cardinality(stored) + 1
            /\ Cardinality(stored \cup {m}) \in Nat
        BY <2>3, <4>0
      <4> QED
        BY <2>3, <2>5, <3>0, <4>1
    <3>2. outcome' = "stored" => stored' # {}
      BY <2>5
    <3>3. job.stored \/ outcome' = "current" => stored' # {}
      BY <2>5 DEF CountsOK
    <3>4. outcome' \in Outcomes
      BY <2>5 DEF Outcomes
    <3> QED
      BY <2>1, <2>2, <2>5, <3>1, <3>2, <3>3, <3>4 DEF CountsOK
  <2> QED
    BY <1>5, <2>4, <2>5 DEF Listed, Stop, Trouble
<1> QED
  BY <1>1, <1>2, <1>3, <1>4, <1>5 DEF Next, Over

\* What is above a path that is listed in a directory is above that directory.
LEMMA AboveListed ==
  ASSUME NEW n \in Nodes, NEW c \in Children(n)
  PROVE  Above[c] \ {c} \subseteq IF n = Root THEN {Root} ELSE Above[n]
<1>1. c \in Paths /\ Parent[c] = n
  BY DEF Children
<1>2. Above[c] \ {c} \subseteq Above[n]
  BY <1>1, AboveIsComplete
<1>3. Above[Root] \subseteq {Root}
  <2>1. Complete({Root}) /\ {Root} \in SUBSET Nodes
    BY TreeAssumption DEF Complete, Nodes
  <2>2. Root \in Nodes
    BY DEF Nodes
  <2> QED
    BY <2>1, <2>2 DEF Above
<1> QED
  BY <1>2, <1>3

\* The directories above what is listed are open.
LEMMA GuardStep ==
  ASSUME ShapeOK, GuardOK, [Next]_vars
  PROVE  GuardOK'
<1>1. CASE UNCHANGED vars \/ Edit
  <2>1. UNCHANGED <<pc, todo, guard>>
    BY <1>1 DEF Edit, vars, walk
  <2> QED
    BY <2>1 DEF GuardOK
<1>2. CASE Request
  <2>1. pc = "idle" /\ pc' = "open" /\ UNCHANGED guard
    BY <1>2 DEF Request, walk
  <2> QED
    BY <2>1 DEF GuardOK
<1>3. CASE OpenRoot
  <2>1. pc' = "walk" /\ todo' = Children(Root) /\ Root \in DOMAIN guard'
    BY <1>3 DEF OpenRoot, Opens
  <2>2. ASSUME NEW p \in Children(Root) PROVE Above[p] \ {p} \subseteq {Root}
    BY AboveListed DEF Nodes
  <2> QED
    BY <2>1, <2>2 DEF GuardOK
<1>4. ASSUME NEW how, Stop(how) PROVE GuardOK'
  BY <1>4 DEF Stop, GuardOK
<1>5. CASE Visit
  <2> DEFINE p == First
  <2>1. pc = "walk" /\ p \in todo /\ p \in Nodes /\ p # Root
    BY <1>5, FirstIsListed, TreeAssumption DEF Visit, ShapeOK, Nodes
  <2>2. CASE Opens(p) /\ todo' = Children(p) \cup Rest /\ UNCHANGED pc
    <3>1. DOMAIN guard' = DOMAIN guard \cup {p}
      BY <2>2 DEF Opens
    <3>2. Above[p] \subseteq DOMAIN guard' /\ Root \in DOMAIN guard'
      BY <2>1, <3>1 DEF GuardOK
    <3>3. ASSUME NEW c \in Children(p) PROVE Above[c] \ {c} \subseteq DOMAIN guard'
      <4>1. Above[c] \ {c} \subseteq Above[p]
        BY <2>1, AboveListed
      <4> QED
        BY <3>2, <4>1
    <3>4. \A c \in Rest : Above[c] \ {c} \subseteq DOMAIN guard'
      BY <2>1, <3>1 DEF Rest, GuardOK
    <3> HIDE DEF p
    <3> QED
      BY <2>1, <2>2, <3>2, <3>3, <3>4 DEF GuardOK
  <2>3. CASE pc' = "read" /\ UNCHANGED <<todo, guard>>
    BY <2>1, <2>3 DEF GuardOK
  <2> QED
    BY <1>4, <1>5, <2>2, <2>3 DEF Visit
<1>6. CASE Visited
  <2>1. CASE todo' = Rest /\ pc' = "walk" /\ UNCHANGED guard
    BY <1>6, <2>1 DEF Visited, GuardOK, Rest
  <2> QED
    BY <1>4, <1>6, <2>1 DEF Visited
<1>7. CASE Listed
  <2>1. CASE pc' = "open" /\ guard' = <<>>
    BY <2>1 DEF GuardOK
  <2> QED
    BY <1>4, <1>7, <2>1 DEF Listed
<1>8. CASE Unreadable
  BY <1>4, <1>8 DEF Unreadable
<1> QED
  BY <1>1, <1>2, <1>3, <1>5, <1>6, <1>7, <1>8 DEF Next, Over

\* Of the inventory that ends, and those before it.
LEMMA ListedWithin ==
  ASSUME ShapeOK, WithinOK, Listed, Trouble(Append(kept, read)) = "none"
  PROVE  LET done == Append(kept, read)
         IN  /\ \A k \in 1..Len(done) : Sound(done[k]) /\ done[k] \in Inventories
             /\ Len(done) >= 2 => PatchBytes(Entries(done[1], done[2])) <= MaxPatchBytes
<1> DEFINE done == Append(kept, read)
<1>1. /\ Len(kept) \in 0..3 /\ Len(done) = Len(kept) + 1 /\ done[Len(kept) + 1] = read
      /\ \A k \in 1..Len(kept) : kept[k] \in Inventories /\ done[k] = kept[k]
  BY OneMore
<1>2. read \in Inventories /\ ~KeysCollide(DOMAIN read)
  BY DEF ShapeOK, Trouble
<1> HIDE DEF done
<1>3. ASSUME NEW k \in 1..Len(done) PROVE Sound(done[k]) /\ done[k] \in Inventories
  <2>1. CASE k = Len(kept) + 1
    BY <1>1, <1>2, <2>1 DEF WithinOK, Sound
  <2>2. CASE k # Len(kept) + 1
    <3>1. k \in 1..Len(kept)
      BY <1>1, <2>2
    <3>2. done[k] = kept[k] /\ kept[k] \in Inventories /\ Sound(kept[k])
      BY <1>1, <3>1 DEF WithinOK
    <3> QED
      BY <3>2
  <2> QED
    BY <2>1, <2>2
<1>4. ASSUME Len(done) >= 2 PROVE PatchBytes(Entries(done[1], done[2])) <= MaxPatchBytes
  <2>1. 1 \in 1..Len(done) /\ 2 \in 1..Len(done)
    BY <1>1, <1>4
  <2>2. PatchBytes(Entries(done[1], done[2])) \in Nat
    BY <1>3, <2>1, PatchHasASize
  <2>3. CASE Len(done) = 2
    <3>1. ~(PatchBytes(Entries(done[1], done[2])) > MaxPatchBytes)
      BY <2>3 DEF Trouble, done
    <3> QED
      BY <2>2, <3>1, SizeAssumption
  <2>4. CASE Len(done) # 2
    <3>1. Len(kept) >= 2 /\ 1 \in 1..Len(kept) /\ 2 \in 1..Len(kept)
      BY <1>1, <1>4, <2>4
    <3>2. done[1] = kept[1] /\ done[2] = kept[2]
      BY <1>1, <3>1
    <3> QED
      BY <3>1, <3>2 DEF WithinOK
  <2> QED
    BY <2>3, <2>4
<1> QED
  BY <1>3, <1>4 DEF done

\* The limits are kept.
LEMMA WithinStep ==
  ASSUME ShapeOK, WalkOK, WithinOK, [Next]_vars
  PROVE  WithinOK'
<1>1. CASE UNCHANGED vars \/ Edit \/ Request \/ OpenRoot
  <2>1. UNCHANGED <<read, kept, manifest, stored>> /\ (pc' = "read" => pc = "read" /\ First' = First)
    BY <1>1 DEF Edit, Request, OpenRoot, vars, walk, First
  <2> QED
    BY <2>1 DEF WithinOK, Within, Sound
<1>2. ASSUME NEW how, Stop(how), UNCHANGED <<manifest, stored>> PROVE WithinOK'
  <2>1. read' = <<>> /\ kept' = <<>> /\ Len(kept') = 0 /\ pc' = "idle"
    BY <1>2 DEF Stop
  <2>2. Within(read')
    BY <2>1, TotalOfNothing
  <2> QED
    BY <1>2, <2>1, <2>2 DEF WithinOK, Within, Sound
<1>3. CASE Visit
  <2>1. CASE UNCHANGED <<read, kept, manifest, stored>> /\ (pc' = "read" => First \notin Refused /\ UNCHANGED todo)
    <3>1. pc' = "read" => First' \notin Refused
      BY <2>1 DEF First
    <3> QED
      BY <2>1, <3>1 DEF WithinOK, Within, Sound
  <2> QED
    BY <1>2, <1>3, <2>1 DEF Visit
<1>4. CASE Visited
  <2> DEFINE p    == First
             item == [kind |-> open.kind, content |-> open.content]
  <2>1. CASE /\ Fits(Size[open.content]) /\ UNCHANGED <<kept, manifest, stored>>
             /\ read' = [q \in DOMAIN read \cup {p} |-> IF q = p THEN item ELSE read[q]] /\ pc' = "walk"
    <3>0. p \notin Refused
      BY <1>4 DEF Visited, WithinOK
    <3>1. p \in todo /\ p \in Paths /\ p \notin DOMAIN read
      BY <1>4, FirstIsListed DEF Visited, ShapeOK, WalkOK
    <3>2. /\ DOMAIN read' = DOMAIN read \cup {p} /\ read'[p] = item
          /\ \A q \in DOMAIN read : read'[q] = read[q]
      BY <2>1, <3>1
    <3>3. read' \in Inventories /\ read \in Inventories
      BY <1>4, VisitedShape DEF ShapeOK
    <3>4. /\ Total(read') = Total(read) + Size[open.content]
          /\ Cardinality(DOMAIN read') = Cardinality(DOMAIN read) + 1 /\ Cardinality(DOMAIN read) \in Nat
      BY <3>1, <3>2, <3>3, TotalOfOneMore, FilesAreFinite
    <3>5. /\ Size[open.content] <= MaxFileBytes /\ Total(read) + Size[open.content] <= MaxBytes
          /\ Cardinality(DOMAIN read) < MaxFiles
      BY <2>1 DEF Fits, Used
    <3>6. \A q \in DOMAIN read' : Size[read'[q].content] <= MaxFileBytes /\ q \notin Refused
      BY <3>0, <3>2, <3>5 DEF WithinOK, Within
    <3>7. Within(read')
      BY <3>4, <3>5, <3>6, SizeAssumption DEF Within
    <3> QED
      BY <2>1, <3>7 DEF WithinOK, Within, Sound
  <2> QED
    BY <1>2, <1>4, <2>1 DEF Visited
<1>5. CASE Listed
  <2> DEFINE done == Append(kept, read)
             m    == Built(done)
             new  == ~job.stored /\ m.entries # {}
  <2>1. CASE Trouble(done) # "none"
    BY <1>2, <1>5, <2>1 DEF Listed
  <2>2. CASE Trouble(done) = "none"
    <3>1. /\ \A k \in 1..Len(done) : Sound(done[k]) /\ done[k] \in Inventories
          /\ Len(done) >= 2 => PatchBytes(Entries(done[1], done[2])) <= MaxPatchBytes
      BY <1>5, <2>2, ListedWithin
    <3>2. CASE kept' = done /\ read' = <<>> /\ pc' = "open" /\ UNCHANGED <<manifest, stored>>
      BY <3>1, <3>2, TotalOfNothing DEF WithinOK, Within, Sound
    <3>3. CASE /\ Len(done) = 4 /\ manifest' = (IF new THEN m ELSE manifest)
               /\ stored' = (IF new THEN stored \cup {m} ELSE stored)
               /\ read' = <<>> /\ kept' = <<>> /\ pc' = "idle"
      <4>1. m.base = done[1] /\ m.work = done[2] /\ m.entries = Entries(done[1], done[2])
        BY DEF Built
      <4>2. Sound(m.base) /\ Sound(m.work) /\ PatchBytes(m.entries) <= MaxPatchBytes
        BY <3>1, <3>3, <4>1
      <4>3. Len(kept') = 0 /\ Within(read')
        BY <3>3, TotalOfNothing
      <4> HIDE DEF m
      <4>4. ASSUME stored' # {}
            PROVE  Sound(manifest'.base) /\ Sound(manifest'.work) /\ PatchBytes(manifest'.entries) <= MaxPatchBytes
        <5>1. CASE new
          BY <3>3, <4>2, <5>1
        <5>2. CASE ~new
          BY <3>3, <4>4, <5>2 DEF WithinOK
        <5> QED
          BY <5>1, <5>2
      <4> QED
        <5>1. pc' # "read" /\ \A k \in 1..Len(kept') : FALSE
          BY <3>3, <4>3
        <5>2. ~(Len(kept') >= 2)
          BY <4>3
        <5> QED
          BY <4>3, <4>4, <5>1, <5>2 DEF WithinOK, Within, Sound
    <3> QED
      BY <1>5, <2>2, <3>2, <3>3 DEF Listed, Stop
  <2> QED
    BY <2>1, <2>2
<1>6. CASE Unreadable
  BY <1>2, <1>6 DEF Unreadable
<1> QED
  BY <1>1, <1>3, <1>4, <1>5, <1>6 DEF Next, Over

\* The files of a tree are an inventory.
LEMMA FilesAreAnInventory ==
  ASSUME NEW t \in Trees, IsTree(trees[t])
  PROVE  /\ Files(trees[t]) \in Inventories
         /\ \A p \in Paths : Val(Files(trees[t]), p) = Told(t)[p]
         /\ \A p \in Paths : p \in DOMAIN Files(trees[t]) <=> trees[t][p].kind \in {"file", "link"}
<1> DEFINE S == {q \in Paths : trees[t][q].kind \notin {"none", "dir"}}
           files == Files(trees[t])
<1>1. \A p \in Paths : trees[t][p].kind \in {"none", "dir", "file", "link"}
  BY DEF IsTree, Places, Nodes
<1>2. files = [p \in S |-> [kind |-> trees[t][p].kind, content |-> trees[t][p].content]]
  BY DEF Files
<1>3. S \in SUBSET Paths /\ DOMAIN files = S
  BY <1>2
<1>4. ASSUME NEW p \in S PROVE files[p] = Told(t)[p] /\ files[p] \in Items
  BY <1>1, <1>2, WhatIsTold
<1>5. files \in [S -> Items]
  BY <1>2, <1>4
<1>6. ASSUME NEW p \in Paths, p \notin S PROVE Told(t)[p] = Absent
  BY <1>1, <1>6, WhatIsTold
<1>7. \A p \in Paths : p \in S <=> trees[t][p].kind \in {"file", "link"}
  BY <1>1
<1> HIDE DEF files, S
<1>8. files \in Inventories
  BY <1>3, <1>5 DEF Inventories
<1>9. \A p \in Paths : Val(files, p) = Told(t)[p]
  BY <1>3, <1>4, <1>6 DEF Val
<1> QED
  BY <1>3, <1>7, <1>8, <1>9 DEF files

\* Two inventories that tell the same are the same.
LEMMA SameInventory ==
  ASSUME NEW b \in Inventories, NEW w \in Inventories, \A p \in Paths : Val(b, p) = Val(w, p)
  PROVE  b = w
<1>1. PICK S \in SUBSET Paths : b \in [S -> Items]
  BY DEF Inventories
<1>2. PICK T \in SUBSET Paths : w \in [T -> Items]
  BY DEF Inventories
<1>3. Absent \notin Items
  BY DEF Absent, Items
<1>4. S = T
  BY <1>1, <1>2, <1>3 DEF Val
<1>5. \A p \in S : b[p] = w[p]
  BY <1>1, <1>2, <1>4 DEF Val
<1> QED
  BY <1>1, <1>2, <1>4, <1>5

\* An inventory of a quiet tree is part of what is there, and all of it when it ends.
LEMMA QuietRead ==
  ASSUME ShapeOK, WalkOK, QuietOK, Quiet, pc \in {"walk", "read"}
  PROVE  /\ Files(Tree) \in Inventories
         /\ \A p \in DOMAIN read : p \in DOMAIN Files(Tree) /\ read[p] = Files(Tree)[p]
         /\ todo = {} => read = Files(Tree)
<1>1. Current \in Trees /\ Tree = trees[Current] /\ IsTree(trees[Current]) /\ read \in Inventories
  BY DEF Current, Trees, Tree, ShapeOK
<1>2. Files(Tree) \in Inventories /\ \A p \in Paths : Val(Files(Tree), p) = Told(Current)[p]
  BY <1>1, FilesAreAnInventory
<1>3. ASSUME NEW p \in DOMAIN read PROVE p \in DOMAIN Files(Tree) /\ read[p] = Files(Tree)[p]
  <2>1. p \in Paths /\ read[p] \in Items
    BY <1>1, FilesAreFinite
  <2>2. Decided(p)
    BY <2>1 DEF Decided, WalkOK
  <2>3. Val(Files(Tree), p) = read[p]
    BY <1>2, <2>1, <2>2 DEF QuietOK, Val
  <2> QED
    BY <2>1, <2>3 DEF Val, Items, Absent
<1>4. ASSUME todo = {} PROVE read = Files(Tree)
  <2>1. \A p \in Paths : Val(read, p) = Val(Files(Tree), p)
    BY <1>2, <1>4 DEF QuietOK, Decided
  <2> QED
    BY <1>1, <1>2, <2>1, SameInventory
<1> QED
  BY <1>2, <1>3, <1>4

\* What is listed of a quiet tree is there, and so is what is above it.
LEMMA QuietChain ==
  ASSUME GuardOK, QuietOK, Quiet, pc \in {"walk", "read"}, NEW p \in todo
  PROVE  ChainHolds(p) /\ Tree[p].kind # "none"
<1>1. Above[p] \ {p} \subseteq DOMAIN guard
  BY DEF GuardOK
<1>2. \A d \in DOMAIN guard : guard[d] = Tree[d].stamp /\ Tree[d].kind = "dir"
  BY DEF QuietOK
<1>3. ChainHolds(p)
  BY <1>1, <1>2 DEF ChainHolds
<1> QED
  BY <1>3 DEF QuietOK

\* What one step of a walk of a quiet tree tells.
LEMMA QuietWalk ==
  ASSUME ShapeOK, QuietOK, Quiet, Observed, UNCHANGED <<trees, kept>>
  PROVE  /\ \A k \in 1..Len(kept') : kept'[k] = Files(trees'[IF k \in {1, 3} THEN "base" ELSE "work"])
         /\ \A p \in Paths : Decided(p)' => Val(read', p) = Told(Current)'[p]
         /\ Tree' = Tree
<1>1. Current' = Current /\ Told(Current)' = Told(Current) /\ Tree' = Tree
  BY DEF Current, Told, Tree
<1>2. ASSUME NEW p \in Paths, Decided(p)' PROVE Val(read', p) = Told(Current)[p]
  BY <1>2 DEF Observed, QuietOK
<1> QED
  BY <1>1, <1>2 DEF QuietOK

\* The quiet trees are what the inventories say.
LEMMA QuietStep ==
  ASSUME ShapeOK, WalkOK, CountsOK, GuardOK, QuietOK, [Next]_vars
  PROVE  QuietOK'
<1>1. CASE UNCHANGED vars
  BY <1>1 DEF vars, walk, QuietOK, Quiet, Decided, Val, Told, Current, Tree, First
<1>2. CASE Edit
  <2>1. edits' = edits + 1 /\ UNCHANGED job /\ edits \in Nat /\ job.since \in Nat /\ job.since <= edits
    BY <1>2 DEF Edit, ShapeOK, CountsOK
  <2>2. edits' # job'.since
    BY <2>1
  <2> QED
    BY <2>2 DEF QuietOK, Quiet
<1>3. CASE Request
  <2>1. pc = "idle" /\ pc' = "open" /\ UNCHANGED <<guard, todo, kept>>
    BY <1>3 DEF Request, walk
  <2>2. kept' = <<>> /\ Len(kept') = 0 /\ guard' = <<>> /\ DOMAIN guard' = {} /\ todo' = {}
    BY <2>1, EmptyIsAnInventory DEF ShapeOK, GuardOK
  <2> QED
    BY <2>1, <2>2 DEF QuietOK, Decided
<1>4. ASSUME NEW how, Stop(how) PROVE QuietOK'
  BY <1>4 DEF Stop, QuietOK, Quiet
<1>5. SUFFICES ASSUME OpenRoot \/ Visit \/ Visited \/ Listed, Quiet' PROVE QuietOK'
  BY <1>1, <1>2, <1>3, <1>4 DEF Next, Over, Unreadable, QuietOK
<1>6. Quiet /\ UNCHANGED trees
  BY <1>5 DEF OpenRoot, Visit, Visited, Listed, Quiet
<1>7. IsTree(Tree) /\ Root \in Nodes
  BY DEF Tree, Trees, ShapeOK, Nodes
<1>8. CASE OpenRoot
  <2>1. UNCHANGED <<trees, kept>> /\ pc = "open" /\ pc' = "walk" /\ todo' = Children(Root) /\ Opens(Root)
    BY <1>8 DEF OpenRoot
  <2>2. guard = <<>> /\ DOMAIN guard = {}
    BY <2>1, EmptyIsAnInventory DEF GuardOK
  <2>3. guard' = [d \in {Root} |-> Tree[Root].stamp]
    BY <2>1, <2>2 DEF Opens
  <2>4. Tree[Root].kind = "dir" /\ \A d \in DOMAIN guard' : guard'[d] = Tree[d].stamp /\ Tree[d].kind = "dir"
    BY <1>7, <2>3 DEF IsTree
  <2>5. \A p \in todo' : Tree[p].kind # "none"
    BY <2>1 DEF Children
  <2>6. Observed
    BY <1>8, OpenRootShape
  <2> QED
    BY <1>6, <2>1, <2>4, <2>5, <2>6, QuietWalk DEF QuietOK
<1>9. CASE Visit
  <2> DEFINE p == First
  <2>1. pc = "walk" /\ p \in todo
    BY <1>9, FirstIsListed DEF Visit, ShapeOK
  <2>2. Observed
    BY <1>9, VisitShape
  <2>3. CASE Tree[p].kind = "dir" /\ Opens(p) /\ todo' = Children(p) \cup Rest /\ UNCHANGED <<pc, kept>>
    <3>1. \A d \in DOMAIN guard' : guard'[d] = Tree[d].stamp /\ Tree[d].kind = "dir"
      BY <1>6, <2>3 DEF Opens, QuietOK
    <3>2. \A q \in todo' : Tree[q].kind # "none"
      BY <1>6, <2>3 DEF Children, Rest, QuietOK
    <3> QED
      BY <1>6, <2>1, <2>2, <2>3, <3>1, <3>2, QuietWalk DEF QuietOK
  <2>4. CASE pc' = "read" /\ open' = Tree[p] /\ UNCHANGED <<todo, guard, kept>>
    <3>1. First' = First
      BY <2>4 DEF First
    <3> QED
      BY <1>6, <2>2, <2>4, <3>1, QuietWalk DEF QuietOK
  <2> QED
    BY <1>4, <1>9, <2>3, <2>4 DEF Visit
<1>10. CASE Visited
  <2>1. Observed
    BY <1>10, VisitedShape
  <2>2. CASE todo' = Rest /\ pc' = "walk" /\ UNCHANGED <<guard, kept>>
    BY <1>6, <2>1, <2>2, QuietWalk DEF QuietOK, Rest
  <2> QED
    BY <1>4, <1>10, <2>2 DEF Visited
<1>11. CASE Listed
  <2> DEFINE done == Append(kept, read)
  <2>1. pc = "walk" /\ todo = {}
    BY <1>11 DEF Listed
  <2>2. CASE Len(done) < 4 /\ pc' = "open" /\ kept' = done /\ guard' = <<>> /\ UNCHANGED todo
    <3>1. read = Files(Tree)
      BY <1>6, <2>1, QuietRead
    <3>2. /\ Len(kept) \in 0..2 /\ Len(done) = Len(kept) + 1 /\ done[Len(kept) + 1] = read
          /\ \A k \in 1..Len(kept) : done[k] = kept[k]
      BY <2>2, OneMore
    <3>3. Tree = trees[IF Len(kept) + 1 \in {1, 3} THEN "base" ELSE "work"]
      <4>1. \A n \in 0..2 : n \in {0, 2} <=> n + 1 \in {1, 3}
        OBVIOUS
      <4> QED
        BY <3>2, <4>1 DEF Tree
    <3>4. ASSUME NEW k \in 1..Len(kept')
          PROVE  kept'[k] = Files(trees[IF k \in {1, 3} THEN "base" ELSE "work"])
      <4>1. CASE k = Len(kept) + 1
        BY <2>2, <3>1, <3>2, <3>3, <4>1
      <4>2. CASE k # Len(kept) + 1
        <5>1. k \in 1..Len(kept) /\ kept'[k] = kept[k]
          BY <2>2, <3>2, <4>2
        <5> QED
          BY <1>6, <5>1 DEF QuietOK
      <4> QED
        BY <4>1, <4>2
    <3>5. DOMAIN guard' = {} /\ todo' = {} /\ \A p \in Paths : ~Decided(p)'
      BY <2>1, <2>2, EmptyIsAnInventory DEF Decided
    <3> QED
      BY <1>6, <2>2, <3>4, <3>5 DEF QuietOK
  <2> QED
    BY <1>4, <1>11, <2>2 DEF Listed
<1> QED
  BY <1>5, <1>8, <1>9, <1>10, <1>11

\* The four inventories of quiet trees.
LEMMA QuietBuilt ==
  ASSUME ShapeOK, WalkOK, QuietOK, Quiet, Listed, NEW done, done = Append(kept, read)
  PROVE  /\ \A k \in 1..Len(done) : done[k] = Files(trees[IF k \in {1, 3} THEN "base" ELSE "work"])
         /\ Len(done) \in 1..4 /\ Len(done) = Len(kept) + 1
         /\ read = Files(trees[IF Len(done) \in {1, 3} THEN "base" ELSE "work"])
<1>1. read = Files(Tree)
  BY QuietRead DEF Listed
<1>2. /\ Len(kept) \in 0..3 /\ Len(done) = Len(kept) + 1 /\ done[Len(kept) + 1] = read
      /\ \A k \in 1..Len(kept) : done[k] = kept[k]
  BY OneMore
<1>3. Tree = trees[IF Len(kept) + 1 \in {1, 3} THEN "base" ELSE "work"]
  <2>1. \A n \in 0..3 : n \in {0, 2} <=> n + 1 \in {1, 3}
    OBVIOUS
  <2> QED
    BY <1>2, <2>1 DEF Tree
<1>4. ASSUME NEW k \in 1..Len(done) PROVE done[k] = Files(trees[IF k \in {1, 3} THEN "base" ELSE "work"])
  <2>1. CASE k = Len(kept) + 1
    BY <1>1, <1>2, <1>3, <2>1
  <2>2. CASE k # Len(kept) + 1
    <3>1. k \in 1..Len(kept) /\ done[k] = kept[k]
      BY <1>2, <2>2
    <3> QED
      BY <3>1 DEF QuietOK
  <2> QED
    BY <2>1, <2>2
<1> QED
  BY <1>1, <1>2, <1>3, <1>4

\* A manifest of trees that were never edited is stored as it is.
LEMMA StoredStep ==
  ASSUME ShapeOK, WalkOK, CountsOK, QuietOK, StoredOK, [Next]_vars
  PROVE  StoredOK'
<1>1. CASE Edit
  <2>1. edits' # 0
    BY <1>1 DEF Edit, ShapeOK
  <2> QED
    BY <2>1 DEF StoredOK
<1>2. CASE UNCHANGED <<trees, edits, manifest, stored>>
  BY <1>2 DEF StoredOK
<1>3. CASE Listed
  <2> DEFINE done == Append(kept, read)
             m    == Built(done)
             new  == ~job.stored /\ m.entries # {}
             b    == Files(trees["base"])
             w    == Files(trees["work"])
  <2>1. SUFFICES ASSUME edits = 0, Len(done) = 4, manifest' = IF new THEN m ELSE manifest,
                        stored' = IF new THEN stored \cup {m} ELSE stored, stored' # {}
                 PROVE  manifest' = [verification |-> manifest'.verification, base |-> b, work |-> w,
                                     entries |-> Entries(b, w)]
    BY <1>2, <1>3 DEF Listed, StoredOK
  <2>2. Quiet
    BY <1>3, <2>1 DEF Listed, Quiet, CountsOK
  <2>3. done[1] = b /\ done[2] = w
    <3>1. \A k \in 1..Len(done) : done[k] = Files(trees[IF k \in {1, 3} THEN "base" ELSE "work"])
      BY <1>3, <2>2, QuietBuilt
    <3> HIDE DEF done
    <3> QED
      BY <2>1, <3>1
  <2>4. m = [verification |-> m.verification, base |-> b, work |-> w, entries |-> Entries(b, w)]
    BY <2>3 DEF Built
  <2> HIDE DEF m, b, w
  <2>5. CASE new
    BY <2>1, <2>4, <2>5
  <2>6. CASE ~new
    BY <2>1, <2>6 DEF StoredOK, b, w
  <2> QED
    BY <2>5, <2>6
<1> QED
  BY <1>1, <1>2, <1>3 DEF Next, Over, Request, OpenRoot, Visit, Visited, Unreadable, vars

\* A file of a quiet tree that does not fit makes the tree too large.
LEMMA QuietOverflow ==
  ASSUME ShapeOK, WalkOK, QuietOK, Quiet, pc \in {"walk", "read"}, NEW p \in todo, Tree[p].kind \in {"file", "link"},
         \/ Size[Tree[p].content] > MaxFileBytes \/ Used + Size[Tree[p].content] > MaxBytes
         \/ ~(Cardinality(DOMAIN read) < MaxFiles)
  PROVE  TooLarge(Files(trees["base"])) \/ TooLarge(Files(trees["work"]))
<1> DEFINE files == Files(Tree)
           more  == [q \in DOMAIN read \cup {p} |-> files[q]]
<1>1. /\ files \in Inventories /\ \A q \in DOMAIN read : q \in DOMAIN files /\ read[q] = files[q]
  BY QuietRead
<1>2. p \in Paths /\ p \notin DOMAIN read /\ read \in Inventories
  BY DEF ShapeOK, WalkOK
<1>3. Current \in Trees /\ Tree = trees[Current] /\ IsTree(trees[Current])
  BY DEF Current, Trees, Tree, ShapeOK
<1>4. p \in DOMAIN files
  BY <1>2, <1>3, FilesAreAnInventory
<1>5. files[p].content = Tree[p].content
  BY <1>4 DEF Files
<1>6. SUFFICES TooLarge(files)
  BY <1>3 DEF Current
<1> HIDE DEF files
<1>7. more \in Inventories
  <2>1. more \in [DOMAIN read \cup {p} -> Items] /\ DOMAIN read \cup {p} \in SUBSET Paths
    BY <1>1, <1>2, <1>4, FilesAreFinite
  <2> QED
    BY <2>1 DEF Inventories
<1>8. DOMAIN more = DOMAIN read \cup {p} /\ \A q \in DOMAIN more : q \in DOMAIN files /\ more[q] = files[q]
  BY <1>1, <1>4
<1>9. \A q \in DOMAIN read : read[q] = more[q]
  BY <1>1
<1> HIDE DEF more
<1>10. /\ Total(more) = Total(read) + Size[files[p].content]
       /\ Cardinality(DOMAIN more) = Cardinality(DOMAIN read) + 1
  BY <1>2, <1>7, <1>8, <1>9, TotalOfOneMore
<1>11. Total(more) <= Total(files) /\ Total(more) \in Nat /\ Total(files) \in Nat
  BY <1>1, <1>7, <1>8, TotalGrows, TotalIsASum
<1>12. Cardinality(DOMAIN more) <= Cardinality(DOMAIN files)
  <2>1. DOMAIN more \subseteq DOMAIN files /\ IsFiniteSet(DOMAIN files)
    BY <1>1, <1>8, FilesAreFinite
  <2> QED
    BY <2>1, FS_Subset
<1>13. Cardinality(DOMAIN read) \in Nat /\ Cardinality(DOMAIN files) \in Nat
  BY <1>1, <1>2, FilesAreFinite
<1>14. CASE Size[Tree[p].content] > MaxFileBytes
  BY <1>4, <1>5, <1>14 DEF TooLarge
<1>15. CASE Used + Size[Tree[p].content] > MaxBytes
  <2>1. Total(more) > MaxBytes
    BY <1>5, <1>10, <1>15 DEF Used
  <2>2. Total(files) > MaxBytes
    BY <1>11, <2>1, SizeAssumption
  <2> QED
    BY <2>2 DEF TooLarge
<1>16. CASE ~(Cardinality(DOMAIN read) < MaxFiles)
  <2>1. Cardinality(DOMAIN files) > MaxFiles
    BY <1>10, <1>12, <1>13, <1>16, SizeAssumption
  <2> QED
    BY <2>1 DEF TooLarge
<1> QED
  BY <1>14, <1>15, <1>16

\* A build of quiet trees fails for a reason.
LEMMA StableStep ==
  ASSUME ShapeOK, WalkOK, CountsOK, GuardOK, QuietOK, StoredOK, StableTreesAreBuilt, [Next]_vars
  PROVE  StableTreesAreBuilt'
<1> DEFINE b == Files(trees["base"])
           w == Files(trees["work"])
           Holds(places) == \E t \in Trees, n \in places : trees[t][n].kind # "none"
<1>1. CASE UNCHANGED vars
  BY <1>1 DEF vars, StableTreesAreBuilt
<1>2. CASE Edit
  <2>1. edits' = edits + 1 /\ UNCHANGED job /\ edits \in Nat /\ job.since \in Nat /\ job.since <= edits
    BY <1>2 DEF Edit, ShapeOK, CountsOK
  <2>2. edits' > job'.since
    BY <2>1
  <2> QED
    BY <2>2 DEF StableTreesAreBuilt
<1>3. CASE Request \/ OpenRoot
  BY <1>3 DEF Request, OpenRoot, StableTreesAreBuilt
<1>4. SUFFICES ASSUME Visit \/ Visited \/ Unreadable \/ Listed, pc' = "idle", edits = job.since,
                      outcome' \in {"changed", "limit", "refused", "unreadable", "stale"}
               PROVE  \/ outcome' = "stale" /\ edits > 0
                      \/ outcome' = "limit" /\ (TooLarge(b) \/ TooLarge(w) \/ PatchBytes(Entries(b, w)) > MaxPatchBytes)
                      \/ /\ outcome' = "refused"
                         /\ Holds(Refused) \/ \E paths \in {DOMAIN b, DOMAIN w, Changes(b, w)} : KeysCollide(paths)
                      \/ outcome' = "unreadable" /\ Holds(Faulty)
  <2>1. CASE Visit \/ Visited \/ Unreadable \/ Listed
    <3>1. UNCHANGED <<trees, edits, job>> /\ edits \in Nat /\ job.since \in Nat /\ job.since <= edits
      BY <2>1 DEF Visit, Visited, Unreadable, Listed, ShapeOK, CountsOK
    <3>2. edits = job.since \/ edits > job.since
      BY <3>1
    <3> QED
      BY <1>4, <2>1, <3>1, <3>2 DEF StableTreesAreBuilt
  <2> QED
    BY <1>1, <1>2, <1>3, <2>1 DEF Next, Over
<1>5. Quiet
  BY <1>4 DEF Quiet, Visit, Visited, Unreadable, Listed
<1>6. CASE Visit
  <2> DEFINE p == First
  <2>1. pc = "walk" /\ p \in todo
    BY <1>6, FirstIsListed DEF Visit, ShapeOK
  <2>2. ChainHolds(p) /\ Tree[p].kind # "none"
    BY <1>5, <2>1, QuietChain
  <2>3. \/ Stop("refused") /\ p \in Refused
        \/ /\ Stop("limit") /\ Tree[p].kind = "file"
           /\ Size[Tree[p].content] > MaxFileBytes \/ Used + Size[Tree[p].content] > MaxBytes
    BY <1>4, <1>6, <2>1, <2>2 DEF Visit
  <2> HIDE DEF p
  <2>4. CASE Stop("refused") /\ p \in Refused
    <3>1. Holds(Refused)
      BY <2>2, <2>4 DEF Tree, Trees
    <3> QED
      BY <2>4, <3>1 DEF Stop
  <2>5. CASE Stop("limit") /\ ~(p \in Refused /\ Stop("refused"))
    <3>1. outcome' = "limit" /\ (TooLarge(b) \/ TooLarge(w))
      BY <1>5, <2>1, <2>3, <2>5, QuietOverflow DEF Stop
    <3> QED
      BY <3>1
  <2> QED
    BY <2>3, <2>4, <2>5
<1>7. CASE Visited
  <2> DEFINE p == First
  <2>1. pc = "read" /\ p \in todo
    BY <1>7, FirstIsListed DEF Visited, ShapeOK
  <2>2. ChainHolds(p) /\ Tree[p] = open /\ open.kind \in {"file", "link"}
    BY <1>5, <2>1, QuietChain DEF QuietOK, ShapeOK
  <2>3. Stop("limit") /\ ~Fits(Size[open.content])
    BY <1>4, <1>7, <2>1, <2>2 DEF Visited
  <2>4. Tree[p].content \in Contents /\ Tree[p].kind \in {"file", "link"}
    BY <2>1, <2>2 DEF ShapeOK, Places
  <2>5. \/ Size[Tree[p].content] > MaxFileBytes \/ Used + Size[Tree[p].content] > MaxBytes
        \/ ~(Cardinality(DOMAIN read) < MaxFiles)
    <3>1. Size[Tree[p].content] \in Nat /\ Used \in Nat
      BY <2>4, SizeAssumption, TotalIsASum DEF Used, ShapeOK
    <3> QED
      BY <2>2, <2>3, <3>1, SizeAssumption DEF Fits
  <2> HIDE DEF p
  <2>6. outcome' = "limit" /\ (TooLarge(b) \/ TooLarge(w))
    BY <1>5, <2>1, <2>3, <2>4, <2>5, QuietOverflow DEF Stop
  <2> QED
    BY <2>6
<1>8. CASE Listed
  <2> DEFINE done == Append(kept, read)
             m    == Built(done)
             new  == ~job.stored /\ m.entries # {}
  <2>1. pc = "walk" /\ todo = {}
    BY <1>8 DEF Listed
  <2>2. /\ Len(done) \in 1..4
        /\ \A k \in 1..Len(done) : done[k] = Files(trees[IF k \in {1, 3} THEN "base" ELSE "work"])
        /\ read = Files(trees[IF Len(done) \in {1, 3} THEN "base" ELSE "work"])
    BY <1>5, <1>8, QuietBuilt
  <2>3. /\ Len(done) >= 1 => done[1] = b
        /\ Len(done) >= 2 => done[2] = w
        /\ Len(done) >= 3 => done[3] = b
        /\ Len(done) >= 4 => done[4] = w
        /\ read \in {b, w}
    <3> HIDE DEF done
    <3> QED
      BY <2>2
  <2>4. Tree[Root].kind = "dir" /\ Tree[Root].stamp = guard[Root]
    BY <1>5, <2>1 DEF QuietOK, GuardOK
  <2> HIDE DEF done
  <2>5. CASE Trouble(done) # "none"
    <3>1. Stop(Trouble(done))
      BY <1>8, <2>5 DEF Listed, done
    <3>2. outcome' = Trouble(done)
      BY <3>1 DEF Stop
    <3>3. Len(done) = 4 => Settled(done)
      BY <2>3 DEF Settled
    <3>4. CASE KeysCollide(DOMAIN read)
      <4>1. Trouble(done) = "refused"
        BY <2>4, <3>4 DEF Trouble
      <4> QED
        BY <2>3, <3>2, <3>4, <4>1
    <3>5. CASE ~KeysCollide(DOMAIN read)
      <4>1. CASE Len(done) = 2 /\ PatchBytes(Entries(done[1], done[2])) > MaxPatchBytes
        <5>1. Trouble(done) = "limit"
          BY <2>4, <3>5, <4>1 DEF Trouble
        <5> QED
          BY <2>3, <3>2, <4>1, <5>1
      <4>2. CASE ~(Len(done) = 2 /\ PatchBytes(Entries(done[1], done[2])) > MaxPatchBytes)
        <5>1. Trouble(done) = "refused" /\ Len(done) = 4 /\ KeysCollide(Changes(done[1], done[2]))
          BY <2>4, <2>5, <3>3, <3>5, <4>2 DEF Trouble
        <5> QED
          BY <2>3, <3>2, <5>1
      <4> QED
        BY <4>1, <4>2
    <3> QED
      BY <3>4, <3>5
  <2>6. CASE Trouble(done) = "none"
    <3>1. /\ Len(done) = 4
          /\ Stop(IF new THEN "stored" ELSE IF ~job.stored THEN "empty"
                  ELSE IF m = manifest THEN "current" ELSE "stale")
      BY <1>4, <1>8, <2>6 DEF Listed, done
    <3>2. outcome' = "stale" /\ job.stored /\ m # manifest
      BY <1>4, <3>1 DEF Stop
    <3>3. ASSUME edits = 0 PROVE FALSE
      <4>1. manifest = [verification |-> manifest.verification, base |-> b, work |-> w, entries |-> Entries(b, w)]
        BY <3>2, <3>3 DEF StoredOK, CountsOK
      <4>2. m = [verification |-> manifest.verification, base |-> b, work |-> w, entries |-> Entries(b, w)]
        BY <2>3, <3>1, <3>2 DEF Built
      <4> QED
        BY <3>2, <4>1, <4>2
    <3> QED
      BY <3>2, <3>3 DEF ShapeOK
  <2> QED
    BY <2>5, <2>6
<1>9. CASE Unreadable
  <2>1. outcome' = "unreadable" /\ \E n \in Faulty : Tree[n].kind # "none"
    BY <1>9 DEF Unreadable, Stop
  <2>2. Holds(Faulty)
    BY <2>1 DEF Tree, Trees
  <2> QED
    BY <2>1, <2>2
<1> QED
  BY <1>4, <1>6, <1>7, <1>8, <1>9

(***************************************************************************)
(* Theorems                                                                *)
(***************************************************************************)

\* Whatever others do to both trees while they are read, short of putting back what was there: a
\* manifest that is stored, or called current, is the difference of the trees at one moment of the
\* build (builder.py, build()).
THEOREM ManifestsAreOfOneMoment ==
  ASSUME ~Restores
  PROVE  Spec => []ManifestOfOneMoment
<1> DEFINE IInv == WitnessOK /\ ManifestOfOneMoment
<1>1. Init => IInv
  <2> SUFFICES ASSUME Init PROVE IInv
    OBVIOUS
  <2>1. Len(kept) = 0 /\ pc = "idle" /\ outcome = "none"
    BY DEF Init
  <2> QED
    BY <2>1 DEF WitnessOK, Decided, ManifestOfOneMoment, Ended
<1>2. ShapeOK /\ WalkOK /\ IInv /\ [Next]_vars => IInv'
  <2> SUFFICES ASSUME ShapeOK, WalkOK, WitnessOK, ManifestOfOneMoment, [Next]_vars, Ended'
               PROVE  ManifestOfOneMoment'
    BY WitnessStep DEF ManifestOfOneMoment
  <2>1. CASE Listed
    <3>1. PICK s \in seen : /\ Plain(s["base"]) = [p \in Paths |-> Val(kept[1], p)]
                            /\ Plain(s["work"]) = [p \in Paths |-> Val(kept[2], p)]
      BY <2>1, EndedWell, BuiltOfOneMoment
    <3>2. /\ Applied(Entries(kept[1], kept[2]), Plain(s["base"])) = Plain(s["work"])
          /\ \A e \in Entries(kept[1], kept[2]) :
               Plain(s["base"])[e.path] = [kind |-> e.before.kind, content |-> e.before.content]
      BY <2>1, <3>1, EndedWell, EntriesAreTheDifference
    <3>3. manifest'.entries = Entries(kept[1], kept[2]) /\ s \in seen'
      BY <2>1, EndedWell
    <3> QED
      BY <3>2, <3>3 DEF ManifestOfOneMoment
  <2>2. CASE Edit \/ UNCHANGED vars
    <3>1. UNCHANGED <<pc, outcome, manifest>> /\ pc' = "idle"
      BY <2>2 DEF Edit, vars, Ended
    <3>2. UNCHANGED seen
      BY <2>2, <3>1 DEF Edit, vars
    <3> QED
      BY <3>1, <3>2 DEF ManifestOfOneMoment, Ended
  <2> QED
    BY <2>1, <2>2, NotEnded DEF Next, Over
<1>3. IInv => ManifestOfOneMoment
  OBVIOUS
<1> QED
  BY <1>1, <1>2, <1>3, ShapeAlways, PTL DEF Spec

\* The limits are exact, whatever they are and whatever others do: what is stored or called
\* current is within them and holds no refused name and no two paths of one key, and a build of
\* trees that nobody touches fails only for a limit that is exceeded, such a name or pair, or a
\* place that cannot be read (builder.py, build() and _inventory(); project_path.py, parse()).
THEOREM LimitsAreAlwaysExact == Spec => []LimitsAreExact
<1> DEFINE LimitInv == CountsOK /\ WithinOK /\ GuardOK /\ QuietOK /\ StoredOK /\ StableTreesAreBuilt
<1>1. Init => LimitInv
  BY InitCounts
<1>2. ShapeOK /\ WalkOK /\ LimitInv /\ [Next]_vars => LimitInv'
  BY CountsStep, WithinStep, GuardStep, QuietStep, StoredStep, StableStep
<1>3. ShapeOK /\ WalkOK /\ LimitInv => LimitsAreExact
  <2> SUFFICES ASSUME ShapeOK, WalkOK, LimitInv PROVE LimitsAreExact
    OBVIOUS
  <2>1. TypeOK
    <3>1. edits \in 0..MaxEdits
      BY SizeAssumption DEF ShapeOK, CountsOK
    <3>2. DOMAIN read \subseteq Paths /\ DOMAIN read \cap todo = {}
      BY FilesAreFinite DEF ShapeOK, WalkOK
    <3>3. Len(kept) \in 0..4
      BY OneMore
    <3>4. Cardinality(stored) <= MaxRequests
      <4>1. Cardinality(stored) \in Nat /\ Cardinality(stored) <= job.verification /\ job.verification \in 0..MaxRequests
        BY FS_CardinalityType DEF CountsOK
      <4> QED
        BY <4>1, SizeAssumption
    <3> QED
      BY <3>1, <3>2, <3>3, <3>4 DEF TypeOK, ShapeOK, CountsOK
  <2>2. LimitsAreKept
    <3>1. Ended => stored # {}
      BY DEF Ended, CountsOK
    <3> QED
      BY <3>1 DEF LimitsAreKept, WithinOK, Within, Sound
  <2> QED
    BY <2>1, <2>2 DEF LimitsAreExact
<1> QED
  BY <1>1, <1>2, <1>3, ShapeAlways, PTL DEF Spec
=============================================================================
