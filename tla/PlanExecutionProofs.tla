------------------------ MODULE PlanExecutionProofs ------------------------
(***************************************************************************)
(* For every plan, every file and every budget: what the loop remembers of *)
(* a run is what the rows say, DONE work is complete and was seen to be    *)
(* so, no repair is repeated or unpaid, and the iterations of the loop are *)
(* bounded by what the plan and the budgets allow.                         *)
(***************************************************************************)
EXTENDS PlanExecution, FiniteSetTheorems, SequenceTheorems, WellFoundedInduction, TLAPS

(***************************************************************************)
(* The inductive invariant                                                 *)
(***************************************************************************)
StepRows == [task : Tasks, paths : SUBSET Paths, status : StepStatuses,
             failed : Nat, tried : SUBSET (Approaches \cup {None}),
             passed : BOOLEAN, spent : Nat]

Working == phase \in {"EXECUTING", "VERIFYING", "REPAIRING"}

\* What AgentState remembers is what the rows hold.
RunOK ==
  /\ phase = "PLANNING" => steps = <<>> /\ \A t \in Tasks : status[t] = "PENDING"
  /\ Working => /\ task \in Tasks /\ step \in DOMAIN steps
                /\ steps[step].task = task /\ current[task] = step
                /\ status[task] \in {"IN_PROGRESS", "BLOCKED"}
                /\ \A d \in plan.deps[task] : status[d] = "DONE"
  /\ phase \in {"EXECUTING", "VERIFYING"} => steps[step].status = "IN_PROGRESS"
  /\ phase = "REPAIRING" => /\ steps[step].status \in {"IN_PROGRESS", "BLOCKED", "DONE"}
                            /\ Fingerprint(verdict) \in Approaches

\* What is not worked on is settled or untouched.
RestOK ==
  phase \notin Ended =>
    /\ \A t \in Tasks : status[t] \in {"PENDING", "READY", "DONE"} \/ (Working /\ t = task)
    /\ \A s \in DOMAIN steps : \/ steps[s].status \in {"PENDING", "DONE", "SUPERSEDED"}
                               \/ Working /\ s = step
    /\ phase # "PLANNING" =>
         \A t \in Tasks : status[t] \in {"PENDING", "READY"} =>
           StepsOf(t) # {} /\ \A s \in StepsOf(t) : steps[s].status = "PENDING"

\* What the status of a step says of its attempts: its verdict may have been stored when the
\* exception came that kept its attempt from being finished.
StepsOK == \A s \in DOMAIN steps : /\ steps[s].status = "DONE" => steps[s].passed
                                      \/ (phase = "RAISED" /\ status[steps[s].task] # "DONE")
                                   /\ steps[s].status = "PENDING" => steps[s].tried = {}

Core == TypeOK /\ RunOK /\ RestOK /\ StepsOK

\* The attempt that is open was not made before, unless nothing else was left to try.
ApproachOK ==
  phase \in {"EXECUTING", "VERIFYING"} /\ approach \in steps[step].tried \ {None} =>
    action = "REPLAN_TASK"

\* A rejected step is one failed attempt that no repair was charged for yet.
Due(t) == IF phase = "REPAIRING" /\ t = task /\ steps[step].status # "DONE" THEN 1 ELSE 0
BudgetOK ==
  \A t \in Tasks :
    /\ IF phase \in Ended THEN spent[t] <= MaxTaskAttempts ELSE spent[t] < MaxTaskAttempts
    /\ FailedAttempts(t) <= IF phase \in Ended THEN MaxTaskAttempts ELSE spent[t] + Due(t)

\* Each iteration started a task, is one of the two that a DONE step cost, or of the three
\* that a repair was charged for.
Started   == {t \in Tasks : status[t] \notin {"PENDING", "READY"}}
DoneSteps == {s \in DOMAIN steps : steps[s].status = "DONE"}
Ahead == IF phase = "PLANNING" THEN 0 ELSE IF phase = "VERIFYING" THEN 2
         ELSE IF phase = "REPAIRING" /\ steps[step].status # "DONE" THEN 3 ELSE 1
IterationsOK ==
  IF phase \in Ended THEN LoopIsBounded
  ELSE iterations <= Cardinality(Started) + 2 * Cardinality(DoneSteps)
                     + 3 * Cardinality(Charges) + Ahead

(***************************************************************************)
(* Operators                                                               *)
(***************************************************************************)
\* A set of numbers has a least one.
LEMMA LeastElement ==
  ASSUME NEW S \in SUBSET Nat, S # {}
  PROVE  \E x \in S : \A y \in S : x <= y
<1> DEFINE Less == {ss \in Nat \X Nat : ss[1] < ss[2]}
<1>1. IsWellFoundedOn(Less, Nat)
  BY NatLessThanWellFounded DEF OpToRel
<1>2. PICK x \in S : \A y \in S : <<y, x>> \notin Less
  <2> HIDE DEF Less
  <2> QED BY <1>1, WFMin
<1>3. ASSUME NEW y \in S PROVE x <= y
  <2>1. <<y, x>> \in Nat \X Nat /\ <<y, x>>[1] = y /\ <<y, x>>[2] = x
    OBVIOUS
  <2>2. ~ (y < x)
    BY <1>2, <2>1
  <2>3. QED BY <2>2
<1>4. QED BY <1>3

\* What holds of 0 and passes from each number to the next holds of all.
LEMMA SetInduction ==
  ASSUME NEW S, 0 \in S, \A n \in Nat : n \in S => n + 1 \in S
  PROVE  Nat \subseteq S
<1>1. SUFFICES ASSUME Nat \ S # {} PROVE FALSE
  OBVIOUS
<1>2. PICK x \in Nat \ S : \A y \in Nat \ S : x <= y
  BY <1>1, LeastElement
<1>3. x - 1 \in Nat
  BY <1>2
<1>4. x - 1 \in S
  BY <1>2, <1>3
<1>5. QED BY <1>2, <1>3, <1>4

\* The first of some ids is one of them.
LEMMA FirstIsOne ==
  ASSUME NEW ids \in SUBSET Nat, ids # {}
  PROVE  First(ids) \in ids
BY LeastElement DEF First

\* The loop over the paths of a task is what its recursion says.
LEMMA OpenLoop ==
  ASSUME NEW paths \in Seq(Paths), NEW accepted
  PROVE  \E open : /\ Open(paths, accepted) = open[Len(paths)]
                   /\ open[0] = <<>>
                   /\ \A n \in 1..Len(paths) :
                        open[n] = IF paths[n] \in accepted THEN open[n - 1]
                                  ELSE Append(open[n - 1], paths[n])
<1> DEFINE body(f, n) == IF n = 0 THEN <<>>
                         ELSE IF paths[n] \in accepted THEN f[n - 1]
                         ELSE Append(f[n - 1], paths[n])
           Upto == {k \in Nat : \E f : f = [n \in 0..k |-> body(f, n)]}
           open == CHOOSE f : f = [n \in 0..Len(paths) |-> body(f, n)]
<1>1. 0 \in Upto
  <2>1. [n \in 0..0 |-> <<>>] = [n \in 0..0 |-> body([m \in 0..0 |-> <<>>], n)]
    OBVIOUS
  <2> QED BY <2>1
<1>2. ASSUME NEW k \in Nat, k \in Upto PROVE k + 1 \in Upto
  <2>1. PICK f : f = [n \in 0..k |-> body(f, n)]
    BY <1>2
  <2> DEFINE g == [n \in 0..(k + 1) |-> IF n = k + 1 THEN body(f, n) ELSE f[n]]
  <2>2. ASSUME NEW n \in 0..(k + 1) PROVE g[n] = body(g, n)
    <3>1. CASE n = 0
      BY <3>1, <2>1
    <3>2. CASE n # 0
      <4>1. n - 1 \in 0..k /\ n - 1 \in 0..(k + 1) /\ n - 1 # k + 1 /\ g[n - 1] = f[n - 1]
        BY <3>2
      <4>2. body(g, n) = body(f, n)
        BY <4>1
      <4>3. CASE n = k + 1
        BY <4>2, <4>3
      <4>4. CASE n # k + 1
        <5>1. n \in 0..k /\ g[n] = f[n]
          BY <4>4
        <5>2. f[n] = body(f, n)
          BY <2>1, <5>1
        <5> QED BY <5>1, <5>2, <4>2
      <4> QED BY <4>3, <4>4
    <3> QED BY <3>1, <3>2
  <2>3. g = [n \in 0..(k + 1) |-> body(g, n)]
    <3> HIDE DEF body
    <3> QED BY <2>2
  <2>4. \E h : h = [n \in 0..(k + 1) |-> body(h, n)]
    <3> HIDE DEF g, body
    <3> QED BY <2>3
  <2>5. k + 1 \in Nat
    OBVIOUS
  <2> HIDE DEF body
  <2> QED BY <2>4, <2>5
<1>3. Len(paths) \in Upto
  <2> HIDE DEF Upto
  <2> QED BY <1>1, <1>2, SetInduction
<1>4. open = [n \in 0..Len(paths) |-> body(open, n)]
  <2>1. \E f : f = [n \in 0..Len(paths) |-> body(f, n)]
    BY <1>3
  <2> HIDE DEF body
  <2> QED BY <2>1
<1>5. Open(paths, accepted) = open[Len(paths)]
  BY DEF Open
<1> HIDE DEF open
<1>6. open[0] = <<>>
  BY <1>4
<1>7. ASSUME NEW n \in 1..Len(paths)
      PROVE  open[n] = IF paths[n] \in accepted THEN open[n - 1]
                       ELSE Append(open[n - 1], paths[n])
  <2>1. n \in 0..Len(paths) /\ n # 0
    OBVIOUS
  <2>2. open[n] = body(open, n)
    <3> HIDE DEF body
    <3> QED BY <1>4, <2>1
  <2> QED BY <2>1, <2>2
<1> QED BY <1>5, <1>6, <1>7

\* It returns paths of the task that are not accepted, none of them twice.
LEMMA OpenPaths ==
  ASSUME NEW paths \in Seq(Paths), NEW accepted,
         \A i, j \in DOMAIN paths : i # j => paths[i] # paths[j]
  PROVE  LET open == Open(paths, accepted)
         IN  /\ open \in Seq(Paths)
             /\ \A n \in DOMAIN open : open[n] \notin accepted
             /\ \A m, n \in DOMAIN open : m # n => open[m] # open[n]
<1>1. PICK open : /\ Open(paths, accepted) = open[Len(paths)]
                  /\ open[0] = <<>>
                  /\ \A n \in 1..Len(paths) :
                       open[n] = IF paths[n] \in accepted THEN open[n - 1]
                                 ELSE Append(open[n - 1], paths[n])
  BY OpenLoop
<1> DEFINE Good(n) == /\ open[n] \in Seq(Paths)
                      /\ \A i \in 1..Len(open[n]) :
                           open[n][i] \notin accepted /\ \E k \in 1..n : open[n][i] = paths[k]
                      /\ \A i, j \in 1..Len(open[n]) : i # j => open[n][i] # open[n][j]
           Upto == {n \in Nat : n <= Len(paths) => Good(n)}
<1>2. 0 \in Upto
  <2>1. open[0] \in Seq(Paths) /\ Len(open[0]) = 0
    BY <1>1
  <2>2. 1..0 = {}
    OBVIOUS
  <2> QED BY <2>1, <2>2
<1>3. ASSUME NEW n \in Nat, n \in Upto, n + 1 <= Len(paths) PROVE Good(n + 1)
  <2>0. n + 1 \in 1..Len(paths) /\ n + 1 - 1 = n /\ Good(n)
    BY <1>3
  <2>1. CASE paths[n + 1] \in accepted
    <3>1. open[n + 1] = open[n]
      BY <2>0, <2>1, <1>1
    <3>2. 1..n \subseteq 1..(n + 1)
      OBVIOUS
    <3> QED BY <2>0, <3>1, <3>2
  <2>2. CASE paths[n + 1] \notin accepted
    <3> DEFINE old == open[n]
               p   == paths[n + 1]
    <3>1. open[n + 1] = Append(old, p)
      <4>1. open[n + 1] = IF paths[n + 1] \in accepted THEN open[n + 1 - 1]
                          ELSE Append(open[n + 1 - 1], paths[n + 1])
        BY <2>0, <1>1
      <4> QED BY <4>1, <2>0, <2>2
    <3>2. p \in Paths /\ p \notin accepted /\ old \in Seq(Paths)
      BY <2>0, <2>2
    <3>3. \A i \in 1..Len(old) : old[i] # p
      <4>1. \A k \in 1..n : paths[k] # p
        BY <2>0
      <4> QED BY <2>0, <4>1
    <3>4. \A i \in 1..Len(old) : old[i] \notin accepted /\ \E k \in 1..(n + 1) : old[i] = paths[k]
      <4>1. 1..n \subseteq 1..(n + 1)
        OBVIOUS
      <4> QED BY <2>0, <4>1
    <3>5. \A i, j \in 1..Len(old) : i # j => old[i] # old[j]
      BY <2>0
    <3> HIDE DEF old
    <3>6. /\ Append(old, p) \in Seq(Paths) /\ Len(Append(old, p)) = Len(old) + 1
          /\ \A i \in 1..(Len(old) + 1) : Append(old, p)[i] = IF i = Len(old) + 1 THEN p ELSE old[i]
      BY <3>2
    <3>7. \A i \in 1..(Len(old) + 1) : i # Len(old) + 1 => i \in 1..Len(old)
      BY <3>2
    <3>8. \A i \in 1..(Len(old) + 1) :
            /\ Append(old, p)[i] \notin accepted
            /\ \E k \in 1..(n + 1) : Append(old, p)[i] = paths[k]
      <4>1. n + 1 \in 1..(n + 1)
        OBVIOUS
      <4> QED BY <3>6, <3>7, <3>4, <3>2, <4>1
    <3>9. \A i, j \in 1..(Len(old) + 1) : i # j => Append(old, p)[i] # Append(old, p)[j]
      <4> HIDE DEF p
      <4> QED BY <3>6, <3>7, <3>3, <3>5
    <3> QED BY <3>1, <3>6, <3>8, <3>9
  <2> QED BY <2>1, <2>2
<1>4. Len(paths) \in Upto
  <2>1. \A n \in Nat : n \in Upto => n + 1 \in Upto
    <3> SUFFICES ASSUME NEW n \in Nat, n \in Upto PROVE n + 1 \in Upto
      OBVIOUS
    <3>1. n + 1 <= Len(paths) => Good(n + 1)
      BY <1>3
    <3> HIDE DEF Good
    <3> QED BY <3>1
  <2> HIDE DEF Upto
  <2> QED BY <1>2, <2>1, SetInduction
<1>5. Len(paths) \in Nat /\ Good(Len(paths))
  <2>1. Len(paths) \in Nat /\ Len(paths) <= Len(paths)
    OBVIOUS
  <2>2. Len(paths) <= Len(paths) => Good(Len(paths))
    <3> HIDE DEF Good
    <3> QED BY <1>4
  <2> HIDE DEF Good
  <2> QED BY <2>1, <2>2
<1> DEFINE last == open[Len(paths)]
<1>6. Open(paths, accepted) = last
  BY <1>1
<1>7. /\ last \in Seq(Paths)
      /\ \A i \in 1..Len(last) : last[i] \notin accepted
      /\ \A i, j \in 1..Len(last) : i # j => last[i] # last[j]
  BY <1>5
<1> HIDE DEF last
<1>8. DOMAIN last = 1..Len(last)
  BY <1>7
<1> QED BY <1>6, <1>7, <1>8

(***************************************************************************)
(* What the actions do to the rows                                         *)
(***************************************************************************)
LEMMA DraftFacts ==
  ASSUME TypeOK
  PROVE  /\ plan.deps \in [Tasks -> SUBSET Tasks] /\ plan.paths \in [Tasks -> Seq(Paths)]
         /\ plan.steps \in Seq([task : Tasks, paths : SUBSET Paths])
         /\ \A t \in Tasks : /\ \E s \in DOMAIN plan.steps : plan.steps[s].task = t
                             /\ \A i, j \in DOMAIN plan.paths[t] :
                                  i # j => plan.paths[t][i] # plan.paths[t][j]
         /\ \A s, u \in DOMAIN plan.steps : s # u /\ plan.steps[s].task = plan.steps[u].task =>
                                       plan.steps[s].paths \cap plan.steps[u].paths = {}
<1>1. plan \in Drafts
  BY DEF TypeOK
<1>2. /\ plan.deps \in [Tasks -> SUBSET Tasks] /\ plan.paths \in [Tasks -> Seq(Paths)]
      /\ plan.steps \in Seq([task : Tasks, paths : SUBSET Paths])
  BY <1>1, DraftAssumption
<1>3. \A t \in Tasks : /\ \E s \in DOMAIN plan.steps : plan.steps[s].task = t
                       /\ \A i, j \in DOMAIN plan.paths[t] :
                            i # j => plan.paths[t][i] # plan.paths[t][j]
  BY <1>1, DraftAssumption
<1>4. \A s, u \in DOMAIN plan.steps : s # u /\ plan.steps[s].task = plan.steps[u].task =>
                                      plan.steps[s].paths \cap plan.steps[u].paths = {}
  BY <1>1, DraftAssumption
<1> QED BY <1>2, <1>3, <1>4

LEMMA StepFacts ==
  ASSUME TypeOK
  PROVE  /\ steps \in Seq(StepRows) /\ Len(steps) \in Nat /\ DOMAIN steps = 1..Len(steps)
         /\ DOMAIN steps \subseteq Nat /\ \A s \in DOMAIN steps : steps[s] \in StepRows
<1>1. steps \in Seq(StepRows)
  BY DEF TypeOK, StepRows
<1> QED BY <1>1

\* Only one row changes, and it remains a row of the same task and files.
OnlyRow(id) ==
  /\ steps' \in Seq(StepRows) /\ Len(steps') = Len(steps) /\ DOMAIN steps' = DOMAIN steps
  /\ \A s \in DOMAIN steps : s # id => steps'[s] = steps[s]
  /\ \A s \in DOMAIN steps : steps'[s].task = steps[s].task /\ steps'[s].paths = steps[s].paths

LEMMA Stored ==
  ASSUME TypeOK, NEW id \in DOMAIN steps, NEW row \in StepRows,
         row.task = steps[id].task, row.paths = steps[id].paths, Store(id, row)
  PROVE  OnlyRow(id) /\ steps'[id] = row
<1>1. steps' = [steps EXCEPT ![id] = row] /\ steps \in Seq(StepRows)
  BY StepFacts DEF Store
<1>2. /\ Len(steps') = Len(steps) /\ DOMAIN steps' = DOMAIN steps /\ steps' \in Seq(StepRows)
      /\ \A s \in DOMAIN steps : steps'[s] = IF s = id THEN row ELSE steps[s]
  BY <1>1
<1> QED BY <1>2 DEF OnlyRow

\* What refresh() and the selector of tasks agree on.
LEMMA FreshStatuses ==
  ASSUME TypeOK, RestOK, phase = "READY", NEW fresh, fresh = Refreshed(plan.deps, status)
  PROVE  /\ fresh \in [Tasks -> {"PENDING", "READY", "DONE"}]
         /\ \A t \in Tasks : /\ fresh[t] = "DONE" <=> status[t] = "DONE"
                             /\ fresh[t] = "READY" => \A d \in plan.deps[t] : status[d] = "DONE"
<1>1. status \in [Tasks -> TaskStatuses] /\ plan.deps \in [Tasks -> SUBSET Tasks]
  BY DraftFacts DEF TypeOK
<1>2. \A t \in Tasks : status[t] \in {"PENDING", "READY", "DONE"}
  BY DEF RestOK, Ended, Working
<1>3. ASSUME NEW t \in Tasks
      PROVE  fresh[t] = IF status[t] = "DONE" THEN "DONE"
                        ELSE IF \A d \in plan.deps[t] : status[d] = "DONE" THEN "READY"
                        ELSE "PENDING"
  <2>1. fresh[t] = IF status[t] \in ActiveStatuses \cup TerminalStatuses THEN status[t]
                   ELSE CalculatedStatus(plan.deps, status, t)
    BY <1>1 DEF Refreshed
  <2>2. ~ \E d \in plan.deps[t] : status[d] \in BlockingStatuses
    BY <1>1, <1>2 DEF BlockingStatuses
  <2>3. CalculatedStatus(plan.deps, status, t) =
          IF \A d \in plan.deps[t] : status[d] = "DONE" THEN "READY" ELSE "PENDING"
    BY <2>2 DEF CalculatedStatus
  <2> QED BY <2>1, <2>3, <1>2 DEF ActiveStatuses, TerminalStatuses
<1>4. DOMAIN fresh = Tasks /\ fresh = [t \in Tasks |-> fresh[t]]
  BY <1>1 DEF Refreshed
<1>5. \A t \in Tasks : fresh[t] \in {"PENDING", "READY", "DONE"}
  BY <1>3
<1> QED BY <1>3, <1>4, <1>5

LEMMA StartRows ==
  ASSUME Core, Start
  PROVE  /\ phase = "READY" /\ phase' = "EXECUTING" /\ iterations' = iterations + 1
         /\ task' \in Tasks /\ step' \in DOMAIN steps
         /\ status[task'] \in {"PENDING", "READY"}
         /\ \A d \in plan.deps[task'] : status[d] = "DONE"
         /\ steps[step'].task = task' /\ steps[step'].status = "PENDING"
         /\ status' \in [Tasks -> {"PENDING", "READY", "DONE", "IN_PROGRESS"}]
         /\ \A t \in Tasks : /\ status'[t] = "IN_PROGRESS" <=> t = task'
                             /\ status'[t] = "DONE" <=> status[t] = "DONE"
         /\ OnlyRow(step') /\ steps'[step'] = [steps[step'] EXCEPT !.status = "IN_PROGRESS"]
         /\ current' = [current EXCEPT ![task'] = step']
<1> DEFINE fresh == Refreshed(plan.deps, status)
<1>1. PICK t \in Selectable(plan.priority, fresh) :
        LET s == First(ExecutableOf(steps, t))
        IN  /\ status' = [fresh EXCEPT ![t] = "IN_PROGRESS"]
            /\ Store(s, [steps[s] EXCEPT !.status = "IN_PROGRESS"])
            /\ SetCurrent(t, s)
            /\ task' = t /\ step' = s
  BY DEF Start
<1>2. /\ fresh \in [Tasks -> {"PENDING", "READY", "DONE"}]
      /\ \A u \in Tasks : /\ fresh[u] = "DONE" <=> status[u] = "DONE"
                          /\ fresh[u] = "READY" => \A d \in plan.deps[u] : status[d] = "DONE"
  BY FreshStatuses DEF Core, Start
<1> HIDE DEF fresh
<1>3. t \in Tasks /\ fresh[t] = "READY"
  BY <1>1, <1>2 DEF Selectable
<1>4. status[t] \in {"PENDING", "READY"} /\ StepsOf(t) # {}
      /\ \A s \in StepsOf(t) : steps[s].status = "PENDING"
  BY <1>2, <1>3 DEF Core, RestOK, Start, Ended, Working
<1>5. StepsOf(t) = ExecutableOf(steps, t) /\ StepsOf(t) \in SUBSET Nat
  BY <1>4, StepFacts DEF Core, StepsOf, ExecutableOf, Executable
<1> DEFINE s == First(ExecutableOf(steps, t))
<1>6. s \in StepsOf(t)
  BY <1>4, <1>5, FirstIsOne
<1> HIDE DEF s
<1>7. s \in DOMAIN steps /\ steps[s].task = t /\ steps[s].status = "PENDING" /\ steps[s] \in StepRows
  BY <1>6, <1>4, StepFacts DEF StepsOf, Core
<1> DEFINE row == [steps[s] EXCEPT !.status = "IN_PROGRESS"]
<1>8. row \in StepRows /\ row.task = steps[s].task /\ row.paths = steps[s].paths
  BY <1>7 DEF StepRows, StepStatuses, Executable
<1>9. task' = t /\ step' = s /\ Store(s, row) /\ status' = [fresh EXCEPT ![t] = "IN_PROGRESS"]
      /\ current' = [current EXCEPT ![t] = s]
  BY <1>1 DEF s, SetCurrent
<1>10. OnlyRow(s) /\ steps'[s] = row
  <2> HIDE DEF row
  <2> QED BY <1>7, <1>8, <1>9, Stored DEF Core
<1>11. /\ status' \in [Tasks -> {"PENDING", "READY", "DONE", "IN_PROGRESS"}]
       /\ \A u \in Tasks : /\ status'[u] = "IN_PROGRESS" <=> u = t
                           /\ status'[u] = "DONE" <=> status[u] = "DONE"
  BY <1>9, <1>2, <1>3
<1>12. phase = "READY" /\ phase' = "EXECUTING" /\ iterations' = iterations + 1
  BY DEF Start, Loop, Enter
<1> QED BY <1>2, <1>3, <1>4, <1>7, <1>9, <1>10, <1>11, <1>12

\* The step of a run that is at work is a row.
LEMMA AtWork ==
  ASSUME Core, Working
  PROVE  /\ task \in Tasks /\ step \in DOMAIN steps /\ step \in Nat /\ steps[step] \in StepRows
         /\ steps[step].task = task /\ current[task] = step
         /\ status[task] \in {"IN_PROGRESS", "BLOCKED"}
         /\ \A d \in plan.deps[task] : status[d] = "DONE"
BY StepFacts DEF Core, RunOK

LEMMA BlockedRows ==
  ASSUME Core, DependencyBlocked
  PROVE  /\ phase = "EXECUTING" /\ phase' = "FAILED" /\ iterations' = iterations + 1
         /\ status' = [status EXCEPT ![task] = "BLOCKED"]
         /\ OnlyRow(step) /\ steps'[step] = [steps[step] EXCEPT !.status = "BLOCKED"]
<1>1. phase = "EXECUTING" /\ Working
  BY DEF DependencyBlocked, Working
<1>2. step \in DOMAIN steps /\ steps[step] \in StepRows
  BY <1>1, AtWork
<1> DEFINE row == [steps[step] EXCEPT !.status = "BLOCKED"]
<1>3. row \in StepRows /\ row.task = steps[step].task /\ row.paths = steps[step].paths
  BY <1>2 DEF StepRows, StepStatuses
<1>4. Store(step, row)
  BY DEF DependencyBlocked
<1>5. OnlyRow(step) /\ steps'[step] = row
  <2> HIDE DEF row
  <2> QED BY <1>2, <1>3, <1>4, Stored DEF Core
<1> QED BY <1>1, <1>5 DEF DependencyBlocked, Loop, Enter, SetStatus

\* What a verdict says.
LEMMA VerdictFacts ==
  ASSUME NEW v \in Verdicts
  PROVE  /\ v.status \in {"PASS", "FAIL", "BLOCKED"}
         /\ v.status # "PASS" => Fingerprint(v) \in Approaches
BY DEF Verdicts, Fingerprint, Approaches

\* A row with one more attempt that was not accepted.
LEMMA FailedRow ==
  ASSUME NEW row \in StepRows, approach \in Approaches \cup {None}
  PROVE  /\ Failed(row) \in StepRows
         /\ Failed(row).failed = row.failed + 1 /\ Failed(row).tried = row.tried \cup {approach}
         /\ Failed(row).task = row.task /\ Failed(row).paths = row.paths
         /\ Failed(row).status = row.status /\ Failed(row).passed = row.passed
         /\ Failed(row).spent = row.spent
<1> DEFINE new == [row EXCEPT !.failed = row.failed + 1, !.tried = row.tried \cup {approach}]
<1>1. Failed(row) = new
  BY DEF Failed
<1>2. row.failed + 1 \in Nat /\ row.tried \cup {approach} \in SUBSET (Approaches \cup {None})
  BY DEF StepRows
<1>3. new \in StepRows
  BY <1>2 DEF StepRows
<1>4. /\ new.failed = row.failed + 1 /\ new.tried = row.tried \cup {approach}
      /\ new.task = row.task /\ new.paths = row.paths /\ new.status = row.status
      /\ new.passed = row.passed /\ new.spent = row.spent
  BY DEF StepRows
<1> QED BY <1>1, <1>3, <1>4

LEMMA RejectedRows ==
  ASSUME Core, StepRejected
  PROVE  /\ phase = "VERIFYING" /\ phase' = "REPAIRING" /\ iterations' = iterations + 1
         /\ steps[step].status = "IN_PROGRESS"
         /\ verdict' \in Verdicts /\ Fingerprint(verdict') \in Approaches
         /\ OnlyRow(step) /\ steps'[step].status \in {"IN_PROGRESS", "BLOCKED"}
         /\ steps'[step].failed = steps[step].failed + 1
         /\ steps'[step].passed = steps[step].passed /\ steps'[step].spent = steps[step].spent
<1>1. phase = "VERIFYING" /\ Working /\ approach \in Approaches \cup {None}
  BY DEF StepRejected, Working, Core, TypeOK
<1>2. step \in DOMAIN steps /\ steps[step] \in StepRows
  BY <1>1, AtWork
<1>3. PICK v \in Verdicts : /\ v.status # "PASS" /\ verdict' = v
                            /\ Store(step, Verified(Failed(steps[step]), v.status))
  BY DEF StepRejected
<1>4. v.status \in {"FAIL", "BLOCKED"} /\ Fingerprint(v) \in Approaches
  BY <1>3, VerdictFacts
<1>5. StatusAfter[v.status] \in {"IN_PROGRESS", "BLOCKED"}
  BY <1>4 DEF StatusAfter
<1> DEFINE failed == Failed(steps[step])
           row == Verified(failed, v.status)
<1>6. /\ failed \in StepRows
      /\ failed.failed = steps[step].failed + 1
      /\ failed.task = steps[step].task /\ failed.paths = steps[step].paths
      /\ failed.passed = steps[step].passed /\ failed.spent = steps[step].spent
  BY <1>1, <1>2, FailedRow
<1>7. /\ row \in StepRows /\ row.status \in {"IN_PROGRESS", "BLOCKED"}
      /\ row.failed = failed.failed /\ row.task = failed.task /\ row.paths = failed.paths
      /\ row.passed = failed.passed /\ row.spent = failed.spent
  <2> HIDE DEF failed
  <2> QED BY <1>5, <1>6 DEF Verified, StepRows, StepStatuses, Executable
<1>8. OnlyRow(step) /\ steps'[step] = row
  <2>1. row.task = steps[step].task /\ row.paths = steps[step].paths /\ Store(step, row)
    BY <1>3, <1>6, <1>7
  <2> HIDE DEF row
  <2> QED BY <1>2, <1>7, <2>1, Stored DEF Core
<1> QED BY <1>1, <1>3, <1>4, <1>6, <1>7, <1>8 DEF StepRejected, Loop, Enter

\* The rows when the open attempt passed.
LEMMA PassedRows ==
  ASSUME Core, phase = "VERIFYING"
  PROVE  /\ StepPassed \in Seq(StepRows) /\ Len(StepPassed) = Len(steps)
         /\ DOMAIN StepPassed = DOMAIN steps
         /\ \A s \in DOMAIN steps : s # step => StepPassed[s] = steps[s]
         /\ StepPassed[step] \in StepRows
         /\ StepPassed[step].status = "DONE" /\ StepPassed[step].passed
         /\ StepPassed[step].task = steps[step].task /\ StepPassed[step].paths = steps[step].paths
         /\ StepPassed[step].failed = steps[step].failed
         /\ StepPassed[step].tried = steps[step].tried
<1>1. /\ step \in DOMAIN steps /\ steps[step] \in StepRows
      /\ steps \in Seq(StepRows) /\ DOMAIN steps = 1..Len(steps)
  BY AtWork, StepFacts DEF Working, Core
<1> DEFINE row == [Verified(steps[step], "PASS") EXCEPT !.passed = TRUE]
<1>2. /\ row \in StepRows /\ row.status = "DONE" /\ row.passed
      /\ row.task = steps[step].task /\ row.paths = steps[step].paths
      /\ row.failed = steps[step].failed /\ row.tried = steps[step].tried
  BY <1>1 DEF Verified, StatusAfter, StepRows, StepStatuses, Executable
<1>3. StepPassed = [steps EXCEPT ![step] = row]
  BY DEF StepPassed
<1> HIDE DEF row
<1> QED BY <1>1, <1>2, <1>3

LEMMA NextStepRows ==
  ASSUME Core, NextStep
  PROVE  /\ phase = "VERIFYING" /\ phase' = "EXECUTING" /\ iterations' = iterations + 1
         /\ steps[step].status = "IN_PROGRESS"
         /\ verdict' \in Verdicts
         /\ step' \in DOMAIN steps /\ step' # step
         /\ steps[step'].task = task /\ steps[step'].status = "PENDING"
         /\ current' = [current EXCEPT ![task] = step']
         /\ steps' \in Seq(StepRows) /\ Len(steps') = Len(steps) /\ DOMAIN steps' = DOMAIN steps
         /\ \A s \in DOMAIN steps : s \notin {step, step'} => steps'[s] = steps[s]
         /\ \A s \in DOMAIN steps : /\ steps'[s].task = steps[s].task
                                    /\ steps'[s].paths = steps[s].paths
                                    /\ steps'[s].failed = steps[s].failed
                                    /\ steps'[s].tried = steps[s].tried
         /\ steps'[step].status = "DONE" /\ steps'[step].passed
         /\ steps'[step'].status = "IN_PROGRESS"
<1>1. phase = "VERIFYING" /\ Working /\ steps[step].status = "IN_PROGRESS"
      /\ iterations' = iterations + 1 /\ phase' = "EXECUTING"
  BY DEF NextStep, Working, Loop, Enter
<1> DEFINE left == ExecutableOf(StepPassed, task)
           next == First(left)
<1>2. left # {} /\ steps' = [StepPassed EXCEPT ![next].status = "IN_PROGRESS"]
      /\ current' = [current EXCEPT ![task] = next] /\ step' = next
  BY DEF NextStep, SetCurrent
<1>3. PICK v \in Verdicts : v.status = "PASS" /\ verdict' = v
  BY DEF NextStep
<1> DEFINE mid == StepPassed
<1>5. /\ mid \in Seq(StepRows) /\ Len(mid) = Len(steps) /\ DOMAIN mid = DOMAIN steps
      /\ \A s \in DOMAIN steps : s # step => mid[s] = steps[s]
      /\ mid[step] \in StepRows
      /\ mid[step].status = "DONE" /\ mid[step].passed
      /\ mid[step].task = steps[step].task /\ mid[step].paths = steps[step].paths
      /\ mid[step].failed = steps[step].failed /\ mid[step].tried = steps[step].tried
  BY <1>1, PassedRows
<1>6. /\ step \in DOMAIN steps /\ DOMAIN steps \subseteq Nat /\ DOMAIN steps = 1..Len(steps)
      /\ \A s \in DOMAIN steps : steps[s] \in StepRows
  BY <1>1, AtWork, StepFacts DEF Core
<1>7. left = {s \in DOMAIN mid : mid[s].task = task /\ mid[s].status \in Executable}
  BY DEF ExecutableOf
<1> HIDE DEF mid
<1>8. left \in SUBSET Nat
  BY <1>7, <1>6, <1>5
<1>9. next \in left
  <2> HIDE DEF left
  <2> QED BY <1>8, <1>2, FirstIsOne
<1>10. next \in DOMAIN steps /\ mid[next].task = task /\ mid[next].status \in Executable
  BY <1>9, <1>7, <1>5
<1> HIDE DEF left, next
<1>11. next # step
  BY <1>10, <1>5 DEF Executable
<1>12. mid[next] = steps[next] /\ steps[next].status = "PENDING" /\ mid[next] \in StepRows
  BY <1>10, <1>11, <1>5, <1>6, <1>1 DEF Core, RestOK, Ended, Executable
<1> DEFINE row == [mid[next] EXCEPT !.status = "IN_PROGRESS"]
<1>13. /\ row \in StepRows /\ row.status = "IN_PROGRESS" /\ row.task = mid[next].task
       /\ row.paths = mid[next].paths /\ row.failed = mid[next].failed
       /\ row.tried = mid[next].tried
  BY <1>12 DEF StepRows, StepStatuses, Executable
<1>14. steps' = [mid EXCEPT ![next] = row]
  BY <1>2 DEF mid
<1> HIDE DEF row
<1>15. /\ steps' \in Seq(StepRows) /\ Len(steps') = Len(steps) /\ DOMAIN steps' = DOMAIN steps
       /\ \A s \in DOMAIN steps : steps'[s] = IF s = next THEN row ELSE mid[s]
  BY <1>14, <1>13, <1>5, <1>10
<1>16. \A s \in DOMAIN steps : s \notin {step, next} => steps'[s] = steps[s]
  BY <1>5, <1>15
<1>17. \A s \in DOMAIN steps : /\ mid[s].task = steps[s].task /\ mid[s].paths = steps[s].paths
                             /\ mid[s].failed = steps[s].failed /\ mid[s].tried = steps[s].tried
  BY <1>5
<1>18. \A s \in DOMAIN steps : /\ steps'[s].task = mid[s].task /\ steps'[s].paths = mid[s].paths
                             /\ steps'[s].failed = mid[s].failed /\ steps'[s].tried = mid[s].tried
  BY <1>13, <1>15
<1>19. steps'[step].status = "DONE" /\ steps'[step].passed /\ steps'[next].status = "IN_PROGRESS"
  BY <1>5, <1>6, <1>10, <1>11, <1>13, <1>15
<1>20. step' = next /\ steps[next].task = task
  BY <1>2, <1>10, <1>12
<1> QED BY <1>1, <1>2, <1>3, <1>10, <1>11, <1>12, <1>15, <1>16, <1>17, <1>18, <1>19, <1>20

\* What the rows are when the last step of a task was accepted.
LastStepPassed ==
  /\ phase = "VERIFYING" /\ iterations' = iterations + 1
  /\ steps[step].status = "IN_PROGRESS" /\ approach' = None
  /\ verdict' \in Verdicts
  /\ OnlyRow(step) /\ steps'[step].status = "DONE" /\ steps'[step].passed
  /\ steps'[step].failed = steps[step].failed

LEMMA TaskRows ==
  ASSUME Core, VerifyTask
  PROVE  /\ LastStepPassed
         /\ status[task] = "IN_PROGRESS"
         /\ \A s \in Live(task) : steps'[s].status = "DONE"
         /\ \/ /\ phase' = "READY" /\ status' = [status EXCEPT ![task] = "DONE"]
            \/ /\ phase' = "REPAIRING" /\ step' = step /\ Fingerprint(verdict') \in Approaches
               /\ status' = [status EXCEPT ![task] = "IN_PROGRESS"]
            \/ /\ phase' = "REPAIRING" /\ step' = step /\ Fingerprint(verdict') \in Approaches
               /\ status' = [status EXCEPT ![task] = "BLOCKED"]
<1>1. /\ phase = "VERIFYING" /\ Working /\ iterations' = iterations + 1
      /\ steps[step].status = "IN_PROGRESS" /\ steps' = StepPassed /\ approach' = None
  BY DEF VerifyTask, Working, Loop
<1>2. PICK v \in Verdicts, w \in Verdicts :
        /\ v.status = "PASS" /\ verdict' = w
        /\ SetStatus(task, StatusAfter[w.status])
        /\ \/ w.status = "PASS" /\ Enter("READY") /\ step' = None
           \/ w.status # "PASS" /\ Enter("REPAIRING") /\ step' = step
  BY DEF VerifyTask
<1>3. /\ w.status \in {"PASS", "FAIL", "BLOCKED"}
      /\ w.status # "PASS" => Fingerprint(w) \in Approaches
  BY VerdictFacts
<1>5. OnlyRow(step) /\ steps'[step].status = "DONE" /\ steps'[step].passed
      /\ steps'[step].failed = steps[step].failed
  BY <1>1, PassedRows DEF OnlyRow
<1>6. status[task] = "IN_PROGRESS" /\ \A s \in Live(task) : steps'[s].status = "DONE"
  BY <1>1 DEF VerifyTask, TaskVerifiable
<1>7. \/ /\ phase' = "READY" /\ status' = [status EXCEPT ![task] = "DONE"]
      \/ /\ phase' = "REPAIRING" /\ step' = step /\ Fingerprint(verdict') \in Approaches
         /\ status' = [status EXCEPT ![task] = "IN_PROGRESS"]
      \/ /\ phase' = "REPAIRING" /\ step' = step /\ Fingerprint(verdict') \in Approaches
         /\ status' = [status EXCEPT ![task] = "BLOCKED"]
  <2>1. CASE w.status = "PASS"
    BY <2>1, <1>2 DEF StatusAfter, SetStatus, Enter
  <2>2. CASE w.status = "FAIL"
    BY <2>2, <1>2, <1>3 DEF StatusAfter, SetStatus, Enter
  <2>3. CASE w.status = "BLOCKED"
    BY <2>3, <1>2, <1>3 DEF StatusAfter, SetStatus, Enter
  <2> QED BY <1>3, <2>1, <2>2, <2>3
<1>8. LastStepPassed
  BY <1>1, <1>2, <1>5 DEF LastStepPassed
<1> QED BY <1>6, <1>7, <1>8

LEMMA RaisedRows ==
  ASSUME Core, VerifyRaises
  PROVE  LastStepPassed /\ phase' = "RAISED"
<1>1. /\ phase = "VERIFYING" /\ Working /\ iterations' = iterations + 1 /\ phase' = "RAISED"
      /\ steps[step].status = "IN_PROGRESS" /\ steps' = StepPassed /\ approach' = None
  BY DEF VerifyRaises, Working, Loop, Enter
<1>2. PICK v \in Verdicts : v.status = "PASS" /\ verdict' = v
  BY DEF VerifyRaises
<1>4. OnlyRow(step) /\ steps'[step].status = "DONE" /\ steps'[step].passed
      /\ steps'[step].failed = steps[step].failed
  BY <1>1, PassedRows DEF OnlyRow
<1> QED BY <1>1, <1>2, <1>4 DEF LastStepPassed

\* What every repair leaves behind.
Repaired ==
  /\ phase = "REPAIRING" /\ iterations' = iterations + 1
  /\ spent' = [spent EXCEPT ![task] = spent[task] + 1]
  /\ decided' = DecisionScope(Strategy) /\ action' = Strategy
  /\ approach' = Fingerprint(verdict) /\ approach' \in Approaches

LEMMA SpendFacts ==
  ASSUME Core, phase = "REPAIRING", Spend
  PROVE  Repaired /\ Working
BY DEF Core, RunOK, Spend, Repaired, Charge, Loop, Working

\* A row that a repair was charged to.
LEMMA ChargedRow ==
  ASSUME NEW row \in StepRows
  PROVE  /\ Charged(row) \in StepRows
         /\ Charged(row).failed = row.failed /\ Charged(row).tried = row.tried
         /\ Charged(row).task = row.task /\ Charged(row).paths = row.paths
         /\ Charged(row).status = row.status /\ Charged(row).passed = row.passed
<1> DEFINE new == [row EXCEPT !.spent = row.spent + 1]
<1>1. Charged(row) = new
  BY DEF Charged
<1>2. row.spent + 1 \in Nat
  BY DEF StepRows
<1>3. new \in StepRows
  BY <1>2 DEF StepRows
<1>4. /\ new.failed = row.failed /\ new.tried = row.tried
      /\ new.task = row.task /\ new.paths = row.paths /\ new.status = row.status
      /\ new.passed = row.passed
  BY DEF StepRows
<1> QED BY <1>1, <1>3, <1>4

LEMMA GiveUpRows ==
  ASSUME Core, GiveUp
  PROVE  /\ Repaired /\ phase' \in Ended
         /\ status' = [status EXCEPT ![task] = "FAILED"]
         /\ phase' = "DONE" => \A t \in Tasks : status'[t] = "DONE"
         /\ OnlyRow(step) /\ steps'[step].status = steps[step].status
         /\ steps'[step].passed = steps[step].passed
         /\ steps'[step].failed = steps[step].failed /\ steps'[step].tried = steps[step].tried
<1>1. phase = "REPAIRING" /\ Repaired /\ Working
  BY SpendFacts DEF GiveUp
<1>2. step \in DOMAIN steps /\ steps[step] \in StepRows
  BY <1>1, AtWork
<1> DEFINE row == Charged(steps[step])
<1>3. /\ row \in StepRows /\ row.failed = steps[step].failed /\ row.tried = steps[step].tried
      /\ row.task = steps[step].task /\ row.paths = steps[step].paths
      /\ row.status = steps[step].status /\ row.passed = steps[step].passed
  BY <1>2, ChargedRow
<1>4. Store(step, row)
  BY DEF GiveUp
<1> HIDE DEF row
<1>5. OnlyRow(step) /\ steps'[step] = row
  BY <1>2, <1>3, <1>4, Stored DEF Core
<1>6. phase' \in Ended /\ (phase' = "DONE" => \A t \in Tasks : status'[t] = "DONE")
  BY DEF GiveUp, Enter, Settled, Ended
<1> QED BY <1>1, <1>3, <1>5, <1>6 DEF GiveUp, SetStatus

LEMMA RetryRows ==
  ASSUME Core, Retry
  PROVE  /\ Repaired /\ phase' = "EXECUTING"
         /\ Strategy = "RETRY_STEP" \/ Strategy = "REPLAN_TASK"
         /\ OnlyRow(step) /\ steps'[step].status = "IN_PROGRESS"
         /\ steps'[step].passed = steps[step].passed
         /\ steps'[step].failed = steps[step].failed /\ steps'[step].tried = steps[step].tried
<1>1. phase = "REPAIRING" /\ Repaired /\ Working
  BY SpendFacts DEF Retry
<1>2. step \in DOMAIN steps /\ steps[step] \in StepRows
  BY <1>1, AtWork
<1> DEFINE mid == Charged(steps[step])
           row == [mid EXCEPT !.status = "IN_PROGRESS"]
<1>3. /\ mid \in StepRows /\ mid.failed = steps[step].failed /\ mid.tried = steps[step].tried
      /\ mid.task = steps[step].task /\ mid.paths = steps[step].paths
      /\ mid.passed = steps[step].passed
  BY <1>2, ChargedRow
<1>4. Store(step, row)
  BY DEF Retry
<1> HIDE DEF mid
<1>5. /\ row \in StepRows /\ row.failed = mid.failed /\ row.tried = mid.tried
      /\ row.task = mid.task /\ row.paths = mid.paths
      /\ row.status = "IN_PROGRESS" /\ row.passed = mid.passed
  BY <1>3 DEF StepRows, StepStatuses, Executable
<1> HIDE DEF row
<1>6. OnlyRow(step) /\ steps'[step] = row
  BY <1>2, <1>3, <1>4, <1>5, Stored DEF Core
<1> QED BY <1>1, <1>3, <1>5, <1>6 DEF Retry, Enter

LEMMA RaiseRows ==
  ASSUME Core, Raise
  PROVE  /\ phase \notin Ended /\ phase' = "RAISED" /\ iterations' = iterations + 1
         /\ phase # "VERIFYING" => UNCHANGED <<steps, status>>
         /\ phase = "VERIFYING" =>
              /\ OnlyRow(step) /\ steps'[step].status \in {"IN_PROGRESS", "VERIFYING", "DONE", "BLOCKED"}
              /\ steps'[step].failed \in {steps[step].failed, steps[step].failed + 1}
              /\ \/ status' = status
                 \/ /\ status' = [status EXCEPT ![task] = "VERIFYING"] /\ steps'[step].status = "DONE"
<1>1. phase \notin Ended /\ phase' = "RAISED" /\ iterations' = iterations + 1
      /\ (phase # "VERIFYING" => UNCHANGED <<steps, status>>)
  BY DEF Raise, Loop, Enter
<1>2. ASSUME phase = "VERIFYING"
      PROVE  step \in DOMAIN steps /\ steps[step] \in StepRows /\ Working
             /\ approach \in Approaches \cup {None}
  BY <1>2, AtWork DEF Working, Core, TypeOK
<1>3. ASSUME phase = "VERIFYING", status' = status,
             NEW s \in {"IN_PROGRESS", "VERIFYING", "DONE", "BLOCKED"},
             Store(step, [Failed(steps[step]) EXCEPT !.status = s])
      PROVE  /\ OnlyRow(step) /\ steps'[step].status = s
             /\ steps'[step].failed = steps[step].failed + 1
  <2> DEFINE half == Failed(steps[step])
             row  == [half EXCEPT !.status = s]
  <2>1. /\ half \in StepRows /\ half.failed = steps[step].failed + 1
        /\ half.task = steps[step].task /\ half.paths = steps[step].paths
    BY <1>2, <1>3, FailedRow
  <2>2. Store(step, row)
    BY <1>3
  <2> HIDE DEF half
  <2>3. /\ row \in StepRows /\ row.failed = half.failed /\ row.status = s
        /\ row.task = half.task /\ row.paths = half.paths
    BY <2>1 DEF StepRows, StepStatuses, Executable
  <2> HIDE DEF row
  <2>4. OnlyRow(step) /\ steps'[step] = row
    BY <1>2, <1>3, <2>1, <2>2, <2>3, Stored DEF Core
  <2> QED BY <2>1, <2>3, <2>4
<1>4. ASSUME phase = "VERIFYING", steps' = StepPassed
      PROVE  /\ OnlyRow(step) /\ steps'[step].status = "DONE"
             /\ steps'[step].failed = steps[step].failed
  BY <1>2, <1>4, PassedRows DEF OnlyRow
<1>5. ASSUME phase = "VERIFYING"
      PROVE  \/ /\ status' = status
                /\ \E s \in {"IN_PROGRESS", "VERIFYING", "DONE", "BLOCKED"} :
                     Store(step, [Failed(steps[step]) EXCEPT !.status = s])
             \/ /\ steps' = StepPassed
                /\ status' = status \/ status' = [status EXCEPT ![task] = "VERIFYING"]
  BY <1>5 DEF Raise, SetStatus
<1>6. CASE phase = "VERIFYING" /\ steps' = StepPassed
  BY <1>1, <1>4, <1>5, <1>6
<1>7. CASE phase = "VERIFYING" /\ steps' # StepPassed
  BY <1>1, <1>3, <1>5, <1>7
<1> QED BY <1>1, <1>6, <1>7

\* A new row.
LEMMA NewRow ==
  ASSUME NEW t \in Tasks, NEW paths \in SUBSET Paths
  PROVE  /\ NewStep(t, paths) \in StepRows
         /\ NewStep(t, paths).task = t /\ NewStep(t, paths).paths = paths
         /\ NewStep(t, paths).status = "PENDING"
         /\ NewStep(t, paths).failed = 0 /\ NewStep(t, paths).tried = {}
BY DEF NewStep, StepRows, StepStatuses, Executable

LEMMA PlanRows ==
  ASSUME Core, Plan
  PROVE  /\ phase = "PLANNING" /\ phase' = "READY" /\ iterations' = iterations + 1
         /\ steps' \in Seq(StepRows) /\ DOMAIN steps' = DOMAIN plan.steps
         /\ \A s \in DOMAIN steps' :
              /\ steps'[s].task = plan.steps[s].task /\ steps'[s].paths = plan.steps[s].paths
              /\ steps'[s].status = "PENDING" /\ steps'[s].failed = 0 /\ steps'[s].tried = {}
<1>1. plan.steps \in Seq([task : Tasks, paths : SUBSET Paths])
  BY DraftFacts DEF Core
<1>2. phase = "PLANNING" /\ phase' = "READY" /\ iterations' = iterations + 1
      /\ steps' = [s \in DOMAIN plan.steps |-> NewStep(plan.steps[s].task, plan.steps[s].paths)]
  BY DEF Plan, Loop, Enter
<1>3. Len(plan.steps) \in Nat /\ DOMAIN plan.steps = 1..Len(plan.steps)
      /\ \A s \in DOMAIN plan.steps : plan.steps[s] \in [task : Tasks, paths : SUBSET Paths]
  <2> DEFINE drafted == plan.steps
             S == [task : Tasks, paths : SUBSET Paths]
  <2>1. drafted \in Seq(S)
    BY <1>1
  <2> HIDE DEF drafted, S
  <2>2. Len(drafted) \in Nat /\ DOMAIN drafted = 1..Len(drafted)
        /\ \A s \in DOMAIN drafted : drafted[s] \in S
    BY <2>1
  <2> QED BY <2>2 DEF drafted, S
<1>4. \A s \in DOMAIN plan.steps : plan.steps[s].task \in Tasks /\ plan.steps[s].paths \in SUBSET Paths
  BY <1>3
<1>5. \A s \in DOMAIN steps' :
        /\ steps'[s] \in StepRows
        /\ steps'[s].task = plan.steps[s].task /\ steps'[s].paths = plan.steps[s].paths
        /\ steps'[s].status = "PENDING" /\ steps'[s].failed = 0 /\ steps'[s].tried = {}
  BY <1>2, <1>4, NewRow
<1>6. steps' \in [1..Len(plan.steps) -> StepRows]
  BY <1>2, <1>3, <1>5
<1>7. steps' \in Seq(StepRows)
  BY <1>3, <1>6, SeqDef
<1> QED BY <1>2, <1>5, <1>7

LEMMA ReplanRows ==
  ASSUME Core, ReplanTask
  PROVE  /\ Repaired /\ phase' = "EXECUTING" /\ Strategy = "REPLAN_TASK" /\ status' = status
         /\ step' = Len(steps) + 1 /\ step' \in DOMAIN steps'
         /\ current' = [current EXCEPT ![task] = step']
         /\ steps' \in Seq(StepRows) /\ Len(steps') > Len(steps)
         /\ \A s \in DOMAIN steps :
              /\ s \in DOMAIN steps'
              /\ steps'[s].task = steps[s].task /\ steps'[s].paths = steps[s].paths
              /\ steps'[s].failed = steps[s].failed /\ steps'[s].tried = steps[s].tried
              /\ steps'[s].passed = steps[s].passed
              /\ steps'[s].status = IF steps[s].task = task /\ steps[s].status # "DONE"
                                    THEN "SUPERSEDED" ELSE steps[s].status
         /\ \A s \in DOMAIN steps' \ DOMAIN steps :
              /\ steps'[s].task = task /\ steps'[s].paths \cap Accepted = {}
              /\ steps'[s].failed = 0 /\ steps'[s].tried = {}
              /\ steps'[s].status = IF s = step' THEN "IN_PROGRESS" ELSE "PENDING"
         /\ \A s, u \in DOMAIN steps' \ DOMAIN steps :
              s # u => steps'[s].paths \cap steps'[u].paths = {}
<1>1. phase = "REPAIRING" /\ Repaired /\ Working /\ Strategy = "REPLAN_TASK"
      /\ phase' = "EXECUTING" /\ status' = status /\ Replacements # <<>>
  BY SpendFacts DEF ReplanTask, Enter
<1>2. /\ task \in Tasks /\ steps \in Seq(StepRows) /\ Len(steps) \in Nat
      /\ DOMAIN steps = 1..Len(steps) /\ \A s \in DOMAIN steps : steps[s] \in StepRows
  BY <1>1, AtWork, StepFacts DEF Core
<1> DEFINE open == Open(plan.paths[task], Accepted)
<1>3. /\ open \in Seq(Paths)
      /\ \A n \in DOMAIN open : open[n] \notin Accepted
      /\ \A m, n \in DOMAIN open : m # n => open[m] # open[n]
  <2>1. /\ plan.paths[task] \in Seq(Paths)
        /\ \A i, j \in DOMAIN plan.paths[task] : i # j => plan.paths[task][i] # plan.paths[task][j]
    BY <1>2, DraftFacts DEF Core
  <2> DEFINE paths == plan.paths[task]
  <2> HIDE DEF paths
  <2>2. LET o == Open(paths, Accepted)
        IN  /\ o \in Seq(Paths)
            /\ \A n \in DOMAIN o : o[n] \notin Accepted
            /\ \A m, n \in DOMAIN o : m # n => o[m] # o[n]
    BY <2>1, OpenPaths DEF paths
  <2> QED BY <2>2 DEF paths
<1> DEFINE new == Replacements
<1>4. new = [n \in DOMAIN open |-> NewStep(task, {open[n]})]
  BY DEF Replacements
<1> HIDE DEF open, new
<1>5. Len(open) \in Nat /\ DOMAIN open = 1..Len(open) /\ \A n \in DOMAIN open : open[n] \in Paths
  BY <1>3
<1>6. ASSUME NEW n \in DOMAIN open
      PROVE  /\ new[n] \in StepRows /\ new[n].task = task /\ new[n].paths = {open[n]}
             /\ new[n].status = "PENDING" /\ new[n].failed = 0 /\ new[n].tried = {}
  <2>1. {open[n]} \in SUBSET Paths /\ new[n] = NewStep(task, {open[n]})
    BY <1>4, <1>5, <1>6
  <2> QED BY <2>1, <1>2, NewRow
<1>7. new \in Seq(StepRows) /\ Len(new) = Len(open) /\ DOMAIN new = 1..Len(open)
  <2>1. new \in [1..Len(open) -> StepRows]
    BY <1>4, <1>5, <1>6
  <2> QED BY <2>1, <1>5, SeqDef
<1>8. Len(new) >= 1
  BY <1>1, <1>7, <1>5, EmptySeq DEF new
<1> DEFINE first == Len(steps) + 1
           charged(s) == [Superseded(s) EXCEPT !.spent =
                            IF s = step THEN Superseded(s).spent + 1 ELSE Superseded(s).spent]
           kept == [s \in DOMAIN steps |-> charged(s)]
<1>9. ASSUME NEW s \in DOMAIN steps
      PROVE  /\ charged(s) \in StepRows
             /\ charged(s).task = steps[s].task /\ charged(s).paths = steps[s].paths
             /\ charged(s).failed = steps[s].failed /\ charged(s).tried = steps[s].tried
             /\ charged(s).passed = steps[s].passed
             /\ charged(s).status = IF steps[s].task = task /\ steps[s].status # "DONE"
                                    THEN "SUPERSEDED" ELSE steps[s].status
  <2> DEFINE row == Superseded(s)
  <2>0. steps[s] \in StepRows
    BY <1>2
  <2>1. /\ row \in StepRows /\ row.task = steps[s].task /\ row.paths = steps[s].paths
        /\ row.failed = steps[s].failed /\ row.tried = steps[s].tried
        /\ row.passed = steps[s].passed
        /\ row.status = IF steps[s].task = task /\ steps[s].status # "DONE"
                        THEN "SUPERSEDED" ELSE steps[s].status
    BY <2>0 DEF Superseded, StepRows, StepStatuses, Executable
  <2> HIDE DEF row
  <2>2. row.spent \in Nat /\ row.spent + 1 \in Nat
    BY <2>1 DEF StepRows
  <2> DEFINE paid == [row EXCEPT !.spent = IF s = step THEN row.spent + 1 ELSE row.spent]
  <2>3. paid \in StepRows
    BY <2>1, <2>2 DEF StepRows
  <2>4. /\ paid.task = row.task /\ paid.paths = row.paths /\ paid.failed = row.failed
        /\ paid.tried = row.tried /\ paid.passed = row.passed /\ paid.status = row.status
    BY <2>1 DEF StepRows
  <2>5. charged(s) = paid
    BY DEF row
  <2> HIDE DEF paid
  <2> QED BY <2>1, <2>3, <2>4, <2>5
<1>10. steps' = [kept \o new EXCEPT ![first].status = "IN_PROGRESS"] /\ step' = first
       /\ current' = [current EXCEPT ![task] = first]
  BY DEF ReplanTask, new, SetCurrent, CurrentAfterReplan
<1> HIDE DEF charged
<1>11. kept \in Seq(StepRows) /\ Len(kept) = Len(steps) /\ \A s \in DOMAIN steps : kept[s] = charged(s)
  <2>1. kept \in [1..Len(steps) -> StepRows]
    BY <1>2, <1>9
  <2> QED BY <2>1, <1>2, SeqDef
<1> HIDE DEF kept
<1> DEFINE mid == kept \o new
<1>12. /\ mid \in Seq(StepRows) /\ Len(mid) = Len(steps) + Len(new)
       /\ \A s \in 1..Len(mid) : mid[s] = IF s <= Len(steps) THEN kept[s] ELSE new[s - Len(steps)]
  BY <1>7, <1>11, <1>2
<1> HIDE DEF mid
<1>13. first \in 1..Len(mid) /\ first - Len(steps) = 1 /\ first > Len(steps) /\ DOMAIN mid = 1..Len(mid)
  BY <1>8, <1>12, <1>2, <1>7
<1>14. mid[first] = new[1] /\ 1 \in DOMAIN open
  BY <1>12, <1>13, <1>5, <1>7, <1>8
<1> DEFINE row == [new[1] EXCEPT !.status = "IN_PROGRESS"]
<1>15. /\ row \in StepRows /\ row.status = "IN_PROGRESS" /\ row.task = new[1].task
       /\ row.paths = new[1].paths /\ row.failed = new[1].failed /\ row.tried = new[1].tried
  BY <1>6, <1>14 DEF StepRows, StepStatuses, Executable
<1>16. steps' = [mid EXCEPT ![first] = row]
  BY <1>10, <1>14 DEF mid
<1> HIDE DEF row
<1>17. /\ steps' \in Seq(StepRows) /\ Len(steps') = Len(mid) /\ DOMAIN steps' = 1..Len(mid)
       /\ \A s \in 1..Len(mid) : steps'[s] = IF s = first THEN row ELSE mid[s]
  BY <1>16, <1>12, <1>13, <1>15
<1>18. ASSUME NEW s \in DOMAIN steps
       PROVE  s \in DOMAIN steps' /\ steps'[s] = charged(s)
  <2>1. s \in 1..Len(mid) /\ s # first /\ s <= Len(steps)
    BY <1>2, <1>12, <1>13, <1>7, <1>5
  <2> QED BY <2>1, <1>17, <1>12, <1>11
<1>19. ASSUME NEW s \in DOMAIN steps' \ DOMAIN steps
       PROVE  /\ s - Len(steps) \in DOMAIN open
              /\ steps'[s].task = task /\ steps'[s].paths = {open[s - Len(steps)]}
              /\ steps'[s].failed = 0 /\ steps'[s].tried = {}
              /\ steps'[s].status = IF s = first THEN "IN_PROGRESS" ELSE "PENDING"
  <2>1. s \in 1..Len(mid) /\ ~(s <= Len(steps)) /\ s - Len(steps) \in 1..Len(open)
    BY <1>2, <1>17, <1>12, <1>7, <1>5
  <2>2. mid[s] = new[s - Len(steps)]
    BY <2>1, <1>12
  <2>3. s - Len(steps) \in DOMAIN open
    BY <2>1, <1>5
  <2>4. CASE s = first
    <3>1. steps'[s] = row
      BY <2>1, <2>4, <1>17
    <3>2. s - Len(steps) = 1
      BY <2>4, <1>13
    <3> QED BY <2>3, <2>4, <3>1, <3>2, <1>15, <1>6, <1>14
  <2>5. CASE s # first
    <3>1. steps'[s] = new[s - Len(steps)]
      BY <2>1, <2>2, <2>5, <1>17
    <3> QED BY <2>3, <2>5, <3>1, <1>6
  <2> QED BY <2>4, <2>5
<1>20. ASSUME NEW s \in DOMAIN steps' \ DOMAIN steps, NEW u \in DOMAIN steps' \ DOMAIN steps, s # u
       PROVE  steps'[s].paths \cap steps'[u].paths = {}
  <2>1. s \in Int /\ u \in Int /\ Len(steps) \in Int
    BY <1>17, <1>12, <1>2, <1>7, <1>5
  <2>2. s - Len(steps) # u - Len(steps)
    BY <2>1, <1>20
  <2> QED BY <2>2, <1>19, <1>20, <1>3
<1>21. \A s \in DOMAIN steps' \ DOMAIN steps : steps'[s].paths \cap Accepted = {}
  BY <1>19, <1>3
<1>22. step' \in DOMAIN steps' /\ Len(steps') > Len(steps)
  BY <1>10, <1>17, <1>13, <1>12, <1>8, <1>2
<1>23. \A s \in DOMAIN steps :
         /\ s \in DOMAIN steps'
         /\ steps'[s].task = steps[s].task /\ steps'[s].paths = steps[s].paths
         /\ steps'[s].failed = steps[s].failed /\ steps'[s].tried = steps[s].tried
         /\ steps'[s].passed = steps[s].passed
         /\ steps'[s].status = IF steps[s].task = task /\ steps[s].status # "DONE"
                               THEN "SUPERSEDED" ELSE steps[s].status
  BY <1>9, <1>18
<1>24. \A s \in DOMAIN steps' \ DOMAIN steps :
         /\ steps'[s].task = task /\ steps'[s].failed = 0 /\ steps'[s].tried = {}
         /\ steps'[s].status = IF s = step' THEN "IN_PROGRESS" ELSE "PENDING"
  BY <1>10, <1>19
<1>25. \A s, u \in DOMAIN steps' \ DOMAIN steps : s # u => steps'[s].paths \cap steps'[u].paths = {}
  BY <1>20
<1> QED BY <1>1, <1>10, <1>17, <1>21, <1>22, <1>23, <1>24, <1>25

(***************************************************************************)
(* Rows and memory                                                         *)
(***************************************************************************)
\* The other variables keep their types.
LEMMA RestTyped ==
  ASSUME Core, Next
  PROVE  /\ plan' \in Drafts /\ decided' \in {"none", "STEP", "TASK"} /\ phase' \in Phases
         /\ approach' \in Approaches \cup {None} /\ verdict' \in Verdicts \cup {NoVerdict}
         /\ action' \in {"none", "RETRY_STEP", "REPLAN_TASK", "GIVE_UP"}
         /\ iterations' \in Nat /\ spent' \in [Tasks -> Nat]
<1> USE DEF Phases
<1>0. /\ plan \in Drafts /\ decided \in {"none", "STEP", "TASK"} /\ phase \in Phases
      /\ approach \in Approaches \cup {None} /\ verdict \in Verdicts \cup {NoVerdict}
      /\ action \in {"none", "RETRY_STEP", "REPLAN_TASK", "GIVE_UP"}
      /\ iterations \in Nat /\ spent \in [Tasks -> Nat]
  BY DEF Core, TypeOK
<1>1. CASE Plan
  BY <1>0, <1>1 DEF Plan, Loop, Enter
<1>2. CASE Start
  BY <1>0, <1>2 DEF Start, Loop, Enter
<1>3. CASE Settle
  BY <1>0, <1>3 DEF Settle, Loop, Enter, Settled
<1>4. CASE DependencyBlocked
  BY <1>0, <1>4 DEF DependencyBlocked, Loop, Enter
<1>5. CASE Execute
  BY <1>0, <1>5 DEF Execute, Loop, Enter, rows
<1>6. CASE StepRejected
  BY <1>0, <1>6, RejectedRows DEF StepRejected
<1>7. CASE NextStep
  BY <1>0, <1>7, NextStepRows DEF NextStep
<1>8. CASE VerifyTask
  BY <1>0, <1>8, TaskRows DEF VerifyTask, LastStepPassed
<1>9. CASE VerifyRaises
  BY <1>0, <1>9, RaisedRows DEF VerifyRaises, LastStepPassed
<1>10. ASSUME Repaired, plan' = plan, verdict' = verdict
       PROVE  /\ plan' \in Drafts /\ decided' \in {"none", "STEP", "TASK"}
              /\ approach' \in Approaches \cup {None} /\ verdict' \in Verdicts \cup {NoVerdict}
              /\ action' \in {"none", "RETRY_STEP", "REPLAN_TASK", "GIVE_UP"}
              /\ iterations' \in Nat /\ spent' \in [Tasks -> Nat]
  <2>1. spent' \in [Tasks -> Nat]
    <3>1. task \in Tasks
      BY <1>10, AtWork DEF Repaired, Working
    <3> QED BY <1>0, <1>10, <3>1 DEF Repaired
  <2>2. decided' \in {"STEP", "TASK"}
    BY <1>10 DEF Repaired, DecisionScope
  <2>3. action' \in {"RETRY_STEP", "REPLAN_TASK", "GIVE_UP"}
    BY <1>10 DEF Repaired, Strategy, Selected
  <2> QED BY <1>0, <1>10, <2>1, <2>2, <2>3 DEF Repaired
<1>11. CASE GiveUp
  BY <1>10, <1>11, GiveUpRows DEF GiveUp, Spend, Ended
<1>12. CASE ReplanTask
  BY <1>10, <1>12, ReplanRows DEF ReplanTask, Spend
<1>13. CASE Retry
  BY <1>10, <1>13, RetryRows DEF Retry, Spend
<1>14. CASE Raise
  BY <1>0, <1>14 DEF Raise, Loop, Enter
<1>15. CASE Over
  BY <1>0, <1>15 DEF Over, vars, rows, memory
<1> QED BY <1>1, <1>2, <1>3, <1>4, <1>5, <1>6, <1>7, <1>8, <1>9, <1>11, <1>12, <1>13, <1>14, <1>15
     DEF Next, Controller

\* What remains to be shown of the types.
RowsTyped ==
  /\ status \in [Tasks -> TaskStatuses] /\ current \in [Tasks -> Nat \cup {None}]
  /\ steps \in Seq(StepRows) /\ task \in Tasks \cup {None} /\ step \in Nat \cup {None}

LEMMA TypesFollow ==
  ASSUME Core, Next, RowsTyped'
  PROVE  TypeOK'
BY RestTyped DEF RowsTyped, TypeOK, StepRows

\* The phases at the end promise nothing of tasks and steps at work.
LEMMA EndedOK ==
  ASSUME phase \in Ended
  PROVE  RunOK /\ RestOK
BY DEF Ended, RunOK, RestOK, Working

LEMMA CoreTypes ==
  ASSUME Core
  PROVE  RowsTyped /\ Tasks \subseteq Nat
BY DraftAssumption DEF Core, TypeOK, RowsTyped, StepRows

\* No task and no step is called None.
LEMMA NoneIsNoOne == None \notin Nat /\ None \notin Tasks
BY DraftAssumption

LEMMA CorePlan ==
  ASSUME Core, Plan
  PROVE  RowsTyped' /\ RunOK' /\ RestOK' /\ StepsOK'
<1>1. /\ phase = "PLANNING" /\ phase' = "READY" /\ steps' \in Seq(StepRows)
      /\ DOMAIN steps' = DOMAIN plan.steps
      /\ \A s \in DOMAIN steps' :
           /\ steps'[s].task = plan.steps[s].task
           /\ steps'[s].status = "PENDING" /\ steps'[s].tried = {}
      /\ status' = status /\ current' = current /\ task' = task /\ step' = step
  BY PlanRows DEF Plan
<1>2. \A t \in Tasks : status[t] = "PENDING"
  BY <1>1 DEF Core, RunOK
<1>3. RowsTyped'
  BY <1>1, CoreTypes DEF RowsTyped
<1>4. RunOK'
  BY <1>1 DEF RunOK, Working
<1>5. RestOK'
  <2>1. \A t \in Tasks : \E s \in DOMAIN plan.steps : plan.steps[s].task = t
    BY DraftFacts DEF Core
  <2>2. \A t \in Tasks : StepsOf(t)' # {} /\ \A s \in StepsOf(t)' : steps'[s].status = "PENDING"
    BY <2>1, <1>1 DEF StepsOf
  <2> QED BY <1>1, <1>2, <2>2 DEF RestOK
<1>6. StepsOK'
  BY <1>1 DEF StepsOK
<1> QED BY <1>3, <1>4, <1>5, <1>6

\* The steps of other tasks stay what they were.
LEMMA OthersUntouched ==
  ASSUME Core, NEW t \in Tasks, DOMAIN steps' = DOMAIN steps,
         \A s \in DOMAIN steps : steps'[s].task = steps[s].task,
         \A s \in DOMAIN steps : steps[s].task = t => steps'[s].status = steps[s].status,
         StepsOf(t) # {} /\ \A s \in StepsOf(t) : steps[s].status = "PENDING"
  PROVE  StepsOf(t)' # {} /\ \A s \in StepsOf(t)' : steps'[s].status = "PENDING"
BY DEF StepsOf

LEMMA CoreStart ==
  ASSUME Core, Start
  PROVE  RowsTyped' /\ RunOK' /\ RestOK' /\ StepsOK'
<1>0. DOMAIN steps \subseteq Nat /\ (\A s \in DOMAIN steps : steps[s] \in StepRows)
      /\ (\A t \in Tasks : plan.deps[t] \in SUBSET Tasks) /\ plan' = plan
  BY StepFacts, DraftFacts DEF Core, Start
<1>1. /\ phase = "READY" /\ phase' = "EXECUTING"
      /\ task' \in Tasks /\ step' \in DOMAIN steps
      /\ status[task'] \in {"PENDING", "READY"}
      /\ \A d \in plan.deps[task'] : status[d] = "DONE"
      /\ steps[step'].task = task' /\ steps[step'].status = "PENDING"
      /\ status' \in [Tasks -> {"PENDING", "READY", "DONE", "IN_PROGRESS"}]
      /\ \A t \in Tasks : /\ status'[t] = "IN_PROGRESS" <=> t = task'
                          /\ status'[t] = "DONE" <=> status[t] = "DONE"
      /\ OnlyRow(step') /\ steps'[step'] = [steps[step'] EXCEPT !.status = "IN_PROGRESS"]
      /\ current' = [current EXCEPT ![task'] = step']
  BY StartRows
<1>2. /\ steps'[step'].status = "IN_PROGRESS" /\ steps'[step'].tried = steps[step'].tried
      /\ steps'[step'].passed = steps[step'].passed
  BY <1>0, <1>1 DEF StepRows
<1>3. RowsTyped'
  <2>1. current' \in [Tasks -> Nat \cup {None}] /\ step' \in Nat
    BY <1>0, <1>1, CoreTypes DEF RowsTyped
  <2>2. status' \in [Tasks -> TaskStatuses]
    BY <1>1 DEF TaskStatuses
  <2> QED BY <1>1, <2>1, <2>2 DEF RowsTyped, OnlyRow
<1>4. RunOK'
  <2>1. current'[task'] = step'
    BY <1>1, CoreTypes DEF RowsTyped
  <2>2. \A d \in plan'.deps[task'] : status'[d] = "DONE"
    BY <1>0, <1>1
  <2>3. step' \in DOMAIN steps' /\ steps'[step'].task = task'
    BY <1>1 DEF OnlyRow
  <2> QED BY <1>1, <1>2, <2>1, <2>2, <2>3 DEF RunOK, Working
<1>5. RestOK'
  <2>1. Working' /\ phase' # "PLANNING"
    BY <1>1 DEF Working
  <2>2. \A t \in Tasks : status'[t] \in {"PENDING", "READY", "DONE"} \/ t = task'
    BY <1>1
  <2>3. \A s \in DOMAIN steps : steps[s].status \in {"PENDING", "DONE", "SUPERSEDED"}
    BY <1>1 DEF Core, RestOK, Ended, Working
  <2>4. \A s \in DOMAIN steps' : steps'[s].status \in {"PENDING", "DONE", "SUPERSEDED"} \/ s = step'
    BY <1>1, <2>3 DEF OnlyRow
  <2>5. ASSUME NEW t \in Tasks, status'[t] \in {"PENDING", "READY"}
        PROVE  StepsOf(t)' # {} /\ \A s \in StepsOf(t)' : steps'[s].status = "PENDING"
    <3>1. t # task' /\ status[t] # "DONE"
      BY <1>1, <2>5
    <3>2. status[t] \in {"PENDING", "READY"}
      BY <1>1, <3>1 DEF Core, RestOK, Ended, Working
    <3>3. StepsOf(t) # {} /\ \A s \in StepsOf(t) : steps[s].status = "PENDING"
      BY <1>1, <3>2 DEF Core, RestOK, Ended
    <3>4. \A s \in DOMAIN steps : steps[s].task = t => steps'[s].status = steps[s].status
      BY <1>1, <3>1 DEF OnlyRow
    <3> QED BY <1>1, <3>3, <3>4, OthersUntouched DEF OnlyRow
  <2> QED BY <2>1, <2>2, <2>4, <2>5 DEF RestOK
<1>6. StepsOK'
  <2>1. StepsOK /\ phase # "RAISED"
    BY <1>1 DEF Core
  <2>2. /\ DOMAIN steps' = DOMAIN steps /\ steps'[step'].status = "IN_PROGRESS"
        /\ \A s \in DOMAIN steps : s # step' => steps'[s] = steps[s]
    BY <1>1, <1>2 DEF OnlyRow
  <2> QED BY <2>1, <2>2 DEF StepsOK
<1> QED BY <1>3, <1>4, <1>5, <1>6

LEMMA CoreSettle ==
  ASSUME Core, Settle
  PROVE  RowsTyped' /\ RunOK' /\ RestOK' /\ StepsOK'
<1>1. phase = "READY" /\ phase' \in Ended /\ status' = Refreshed(plan.deps, status)
      /\ steps' = steps /\ current' = current /\ task' = task /\ step' = step
  BY DEF Settle, Enter, Settled, Ended
<1>2. status' \in [Tasks -> {"PENDING", "READY", "DONE"}]
  BY <1>1, FreshStatuses DEF Core
<1>3. status' \in [Tasks -> TaskStatuses]
  BY <1>2 DEF TaskStatuses
<1>4. RowsTyped'
  BY <1>1, <1>3, CoreTypes DEF RowsTyped
<1>5. RunOK' /\ RestOK'
  BY <1>1 DEF Ended, RunOK, RestOK, Working
<1>6. StepsOK'
  BY <1>1 DEF StepsOK, Core
<1> QED BY <1>4, <1>5, <1>6

LEMMA CoreBlocked ==
  ASSUME Core, DependencyBlocked
  PROVE  RowsTyped' /\ RunOK' /\ RestOK' /\ StepsOK'
<1>1. /\ phase' = "FAILED" /\ status' = [status EXCEPT ![task] = "BLOCKED"]
      /\ OnlyRow(step) /\ steps'[step] = [steps[step] EXCEPT !.status = "BLOCKED"]
      /\ current' = current /\ task' = task /\ step' = step
  BY BlockedRows DEF DependencyBlocked
<1>2. task \in Tasks /\ step \in DOMAIN steps /\ steps[step] \in StepRows
  BY AtWork DEF DependencyBlocked, Working
<1>3. steps'[step].status = "BLOCKED"
  BY <1>1, <1>2 DEF StepRows
<1>4. status' \in [Tasks -> TaskStatuses]
  BY <1>1, <1>2, CoreTypes DEF RowsTyped, TaskStatuses
<1>5. RowsTyped'
  BY <1>1, <1>4, CoreTypes DEF RowsTyped, OnlyRow
<1>6. RunOK' /\ RestOK'
  BY <1>1 DEF Ended, RunOK, RestOK, Working
<1>7. StepsOK'
  <2>1. StepsOK /\ phase # "RAISED"
    BY DEF Core, DependencyBlocked
  <2> QED BY <1>1, <1>3, <2>1 DEF StepsOK, OnlyRow
<1> QED BY <1>5, <1>6, <1>7

LEMMA CoreExecute ==
  ASSUME Core, Execute
  PROVE  RowsTyped' /\ RunOK' /\ RestOK' /\ StepsOK'
<1>1. /\ phase = "EXECUTING" /\ phase' = "VERIFYING" /\ UNCHANGED <<plan, status, current, steps>>
      /\ UNCHANGED <<task, step>>
  BY DEF Execute, Enter, rows
<1>2. RowsTyped'
  BY <1>1, CoreTypes DEF RowsTyped
<1>3. RunOK'
  BY <1>1 DEF Core, RunOK, Working
<1>4. RestOK'
  BY <1>1 DEF Core, RestOK, Working, Ended, StepsOf
<1>5. StepsOK'
  BY <1>1 DEF Core, StepsOK
<1> QED BY <1>2, <1>3, <1>4, <1>5

\* A step of the task at work was written, and the task remains at work on a step.
LEMMA StaysAtWork ==
  ASSUME Core, Working, Working', plan' = plan, task' = task,
         DOMAIN steps' = DOMAIN steps, steps' \in Seq(StepRows),
         status' \in [Tasks -> TaskStatuses],
         \A t \in Tasks : t # task => status'[t] = status[t],
         status'[task] \in {"IN_PROGRESS", "BLOCKED"},
         current' \in [Tasks -> Nat \cup {None}], current'[task] = step',
         step' \in DOMAIN steps, steps[step'].task = task,
         \A s \in DOMAIN steps : steps'[s].task = steps[s].task,
         \A s \in DOMAIN steps : steps[s].task # task => steps'[s].status = steps[s].status,
         \A s \in DOMAIN steps : s # step' =>
           steps'[s].status \in {"PENDING", "DONE", "SUPERSEDED"},
         phase' \in {"EXECUTING", "VERIFYING"} => steps'[step'].status = "IN_PROGRESS",
         phase' = "REPAIRING" => /\ steps'[step'].status \in {"IN_PROGRESS", "BLOCKED", "DONE"}
                                 /\ Fingerprint(verdict') \in Approaches
  PROVE  RowsTyped' /\ RunOK' /\ RestOK'
<1>1. /\ task \in Tasks /\ DOMAIN steps \subseteq Nat
      /\ status[task] \in {"IN_PROGRESS", "BLOCKED"}
      /\ \A d \in plan.deps[task] : status[d] = "DONE"
      /\ plan.deps[task] \in SUBSET Tasks
  BY AtWork, StepFacts, DraftFacts DEF Core
<1>2. phase \notin Ended /\ phase # "PLANNING" /\ phase' \notin Ended /\ phase' # "PLANNING"
  BY DEF Working, Ended
<1>3. RowsTyped'
  BY <1>1 DEF RowsTyped
<1>4. RunOK'
  <2>1. \A d \in plan'.deps[task'] : status'[d] = "DONE"
    BY <1>1
  <2>2. Working' => /\ task' \in Tasks /\ step' \in DOMAIN steps'
                    /\ steps'[step'].task = task' /\ current'[task'] = step'
                    /\ status'[task'] \in {"IN_PROGRESS", "BLOCKED"}
                    /\ \A d \in plan'.deps[task'] : status'[d] = "DONE"
    BY <1>1, <2>1
  <2> QED BY <1>2, <2>2 DEF RunOK
<1>5. RestOK'
  <2>1. \A t \in Tasks : status'[t] \in {"PENDING", "READY", "DONE"} \/ t = task'
    BY <1>2 DEF Core, RestOK
  <2>2. ASSUME NEW t \in Tasks, status'[t] \in {"PENDING", "READY"}
        PROVE  StepsOf(t)' # {} /\ \A s \in StepsOf(t)' : steps'[s].status = "PENDING"
    <3>1. t # task /\ status[t] \in {"PENDING", "READY"}
      BY <2>2
    <3>2. StepsOf(t) # {} /\ \A s \in StepsOf(t) : steps[s].status = "PENDING"
      BY <1>2, <3>1 DEF Core, RestOK
    <3>3. \A s \in DOMAIN steps : steps[s].task = t => steps'[s].status = steps[s].status
      BY <3>1
    <3> QED BY <3>2, <3>3, OthersUntouched
  <2> QED BY <1>2, <2>1, <2>2 DEF RestOK
<1> QED BY <1>3, <1>4, <1>5

LEMMA CoreRejected ==
  ASSUME Core, StepRejected
  PROVE  RowsTyped' /\ RunOK' /\ RestOK' /\ StepsOK'
<1>1. /\ phase = "VERIFYING" /\ phase' = "REPAIRING"
      /\ UNCHANGED <<plan, status, current, task, step>>
      /\ Fingerprint(verdict') \in Approaches
      /\ OnlyRow(step) /\ steps'[step].status \in {"IN_PROGRESS", "BLOCKED"}
      /\ steps'[step].passed = steps[step].passed
  BY RejectedRows DEF StepRejected
<1>2. Working /\ Working'
  BY <1>1 DEF Working
<1>3. /\ task \in Tasks /\ step \in DOMAIN steps /\ steps[step].task = task
      /\ current[task] = step /\ status[task] \in {"IN_PROGRESS", "BLOCKED"}
  BY <1>2, AtWork
<1>4. \A s \in DOMAIN steps : s # step' => steps'[s].status \in {"PENDING", "DONE", "SUPERSEDED"}
  BY <1>1 DEF Core, RestOK, Ended, OnlyRow
<1>5. \A s \in DOMAIN steps : steps[s].task # task => steps'[s].status = steps[s].status
  BY <1>1, <1>3 DEF OnlyRow
<1>6. RowsTyped' /\ RunOK' /\ RestOK'
  BY <1>1, <1>2, <1>3, <1>4, <1>5, StaysAtWork, CoreTypes DEF OnlyRow, RowsTyped
<1>7. StepsOK'
  BY <1>1 DEF Core, StepsOK, OnlyRow
<1> QED BY <1>6, <1>7

LEMMA CoreNextStep ==
  ASSUME Core, NextStep
  PROVE  RowsTyped' /\ RunOK' /\ RestOK' /\ StepsOK'
<1>1. /\ phase = "VERIFYING" /\ phase' = "EXECUTING" /\ UNCHANGED <<plan, status, task>>
      /\ step' \in DOMAIN steps /\ step' # step /\ steps[step'].task = task
      /\ current' = [current EXCEPT ![task] = step']
      /\ steps' \in Seq(StepRows) /\ DOMAIN steps' = DOMAIN steps
      /\ \A s \in DOMAIN steps : s \notin {step, step'} => steps'[s] = steps[s]
      /\ \A s \in DOMAIN steps : /\ steps'[s].task = steps[s].task
                                 /\ steps'[s].tried = steps[s].tried
      /\ steps'[step].status = "DONE" /\ steps'[step].passed
      /\ steps'[step'].status = "IN_PROGRESS"
  BY NextStepRows DEF NextStep
<1>2. Working /\ Working'
  BY <1>1 DEF Working
<1>3. /\ task \in Tasks /\ step \in DOMAIN steps /\ steps[step].task = task
      /\ status[task] \in {"IN_PROGRESS", "BLOCKED"}
  BY <1>2, AtWork
<1>4. \A s \in DOMAIN steps : s # step' => steps'[s].status \in {"PENDING", "DONE", "SUPERSEDED"}
  BY <1>1 DEF Core, RestOK, Ended
<1>5. \A s \in DOMAIN steps : steps[s].task # task => steps'[s].status = steps[s].status
  BY <1>1, <1>3
<1>6. current' \in [Tasks -> Nat \cup {None}] /\ current'[task] = step'
      /\ status' \in [Tasks -> TaskStatuses]
  BY <1>1, <1>3, CoreTypes, StepFacts DEF RowsTyped, Core
<1>7. RowsTyped' /\ RunOK' /\ RestOK'
  BY <1>1, <1>2, <1>3, <1>4, <1>5, <1>6, StaysAtWork
<1>8. StepsOK'
  BY <1>1 DEF Core, StepsOK
<1> QED BY <1>7, <1>8

LEMMA CoreTask ==
  ASSUME Core, VerifyTask
  PROVE  RowsTyped' /\ RunOK' /\ RestOK' /\ StepsOK'
<1>1. /\ phase = "VERIFYING" /\ UNCHANGED <<plan, current, task>>
      /\ OnlyRow(step) /\ steps'[step].status = "DONE" /\ steps'[step].passed
  BY TaskRows DEF VerifyTask, LastStepPassed
<1>2. /\ Working /\ task \in Tasks /\ step \in DOMAIN steps /\ steps[step].task = task
      /\ current[task] = step
  BY <1>1, AtWork DEF Working
<1>3. StepsOK'
  BY <1>1 DEF Core, StepsOK, OnlyRow
<1>4. \A s \in DOMAIN steps : s # step => steps[s].status \in {"PENDING", "DONE", "SUPERSEDED"}
  BY <1>1 DEF Core, RestOK, Ended
<1>5. \A s \in DOMAIN steps : steps[s].task # task => steps'[s].status = steps[s].status
  BY <1>1, <1>2 DEF OnlyRow
<1>6. CASE phase' = "READY" /\ status' = [status EXCEPT ![task] = "DONE"]
  <2>1. RowsTyped'
    <3>1. step' = None
      BY <1>6, <1>1 DEF VerifyTask, Enter
    <3>2. status' \in [Tasks -> TaskStatuses]
      BY <1>6, CoreTypes DEF RowsTyped, TaskStatuses
    <3> QED BY <1>1, <3>1, <3>2, CoreTypes DEF RowsTyped, OnlyRow
  <2>2. RunOK'
    BY <1>6 DEF RunOK, Working
  <2>3. RestOK'
    <3>1. \A t \in Tasks : status'[t] = IF t = task THEN "DONE" ELSE status[t]
      BY <1>6, CoreTypes DEF RowsTyped
    <3>2. \A t \in Tasks : status'[t] \in {"PENDING", "READY", "DONE"}
      BY <3>1, <1>1 DEF Core, RestOK, Ended
    <3>3. \A s \in DOMAIN steps' : steps'[s].status \in {"PENDING", "DONE", "SUPERSEDED"}
      BY <1>1, <1>4 DEF OnlyRow
    <3>4. ASSUME NEW t \in Tasks, status'[t] \in {"PENDING", "READY"}
          PROVE  StepsOf(t)' # {} /\ \A s \in StepsOf(t)' : steps'[s].status = "PENDING"
      <4>1. t # task /\ status[t] \in {"PENDING", "READY"}
        BY <3>1, <3>4
      <4>2. StepsOf(t) # {} /\ \A s \in StepsOf(t) : steps[s].status = "PENDING"
        BY <1>1, <4>1 DEF Core, RestOK, Ended
      <4>3. \A s \in DOMAIN steps : steps[s].task = t => steps'[s].status = steps[s].status
        BY <1>5, <4>1
      <4> QED BY <1>1, <4>2, <4>3, OthersUntouched DEF OnlyRow
    <3> QED BY <1>6, <3>2, <3>3, <3>4 DEF RestOK
  <2> QED BY <2>1, <2>2, <2>3, <1>3
<1>7. CASE /\ phase' = "REPAIRING" /\ step' = step /\ Fingerprint(verdict') \in Approaches
           /\ \/ status' = [status EXCEPT ![task] = "IN_PROGRESS"]
              \/ status' = [status EXCEPT ![task] = "BLOCKED"]
  <2>1. /\ status' \in [Tasks -> TaskStatuses] /\ status'[task] \in {"IN_PROGRESS", "BLOCKED"}
        /\ \A t \in Tasks : t # task => status'[t] = status[t]
    BY <1>7, <1>2, CoreTypes DEF RowsTyped, TaskStatuses
  <2>2. Working'
    BY <1>7 DEF Working
  <2>3. \A s \in DOMAIN steps : s # step' => steps'[s].status \in {"PENDING", "DONE", "SUPERSEDED"}
    BY <1>1, <1>4, <1>7 DEF OnlyRow
  <2>4. RowsTyped' /\ RunOK' /\ RestOK'
    BY <1>1, <1>2, <1>5, <1>7, <2>1, <2>2, <2>3, StaysAtWork, CoreTypes DEF OnlyRow, RowsTyped
  <2> QED BY <2>4, <1>3
<1> QED BY <1>6, <1>7, TaskRows

LEMMA CoreVerifyRaises ==
  ASSUME Core, VerifyRaises
  PROVE  RowsTyped' /\ RunOK' /\ RestOK' /\ StepsOK'
<1>1. /\ phase' = "RAISED" /\ UNCHANGED <<plan, status, current, task, step>>
      /\ OnlyRow(step) /\ steps'[step].status = "DONE" /\ steps'[step].passed
  BY RaisedRows DEF VerifyRaises, LastStepPassed
<1>2. RowsTyped'
  BY <1>1, CoreTypes DEF RowsTyped, OnlyRow
<1>3. RunOK' /\ RestOK'
  BY <1>1 DEF Ended, RunOK, RestOK, Working
<1>4. StepsOK'
  BY <1>1 DEF Core, StepsOK, OnlyRow
<1> QED BY <1>2, <1>3, <1>4

LEMMA CoreGiveUp ==
  ASSUME Core, GiveUp
  PROVE  RowsTyped' /\ RunOK' /\ RestOK' /\ StepsOK'
<1>1. /\ phase = "REPAIRING" /\ phase' \in Ended /\ UNCHANGED <<plan, current, task, step>>
      /\ status' = [status EXCEPT ![task] = "FAILED"]
      /\ OnlyRow(step) /\ steps'[step].status = steps[step].status
      /\ steps'[step].passed = steps[step].passed
      /\ steps'[step].tried = steps[step].tried
  BY GiveUpRows DEF GiveUp, Spend
<1>2. step \in DOMAIN steps
  BY <1>1, AtWork DEF Working
<1>3. RowsTyped'
  <2>1. status' \in [Tasks -> TaskStatuses]
    BY <1>1, CoreTypes DEF RowsTyped, TaskStatuses
  <2> QED BY <1>1, <2>1, CoreTypes DEF RowsTyped, OnlyRow
<1>4. RunOK' /\ RestOK'
  BY <1>1 DEF Ended, RunOK, RestOK, Working
<1>5. StepsOK'
  BY <1>1, <1>2 DEF Core, StepsOK, OnlyRow
<1> QED BY <1>3, <1>4, <1>5

LEMMA CoreRetry ==
  ASSUME Core, Retry
  PROVE  RowsTyped' /\ RunOK' /\ RestOK' /\ StepsOK'
<1>1. /\ phase = "REPAIRING" /\ phase' = "EXECUTING"
      /\ UNCHANGED <<plan, status, current, task, step>>
      /\ OnlyRow(step) /\ steps'[step].status = "IN_PROGRESS"
  BY RetryRows DEF Retry, Spend
<1>2. Working /\ Working'
  BY <1>1 DEF Working
<1>3. /\ task \in Tasks /\ step \in DOMAIN steps /\ steps[step].task = task
      /\ current[task] = step /\ status[task] \in {"IN_PROGRESS", "BLOCKED"}
  BY <1>2, AtWork
<1>4. \A s \in DOMAIN steps : s # step' => steps'[s].status \in {"PENDING", "DONE", "SUPERSEDED"}
  BY <1>1 DEF Core, RestOK, Ended, OnlyRow
<1>5. \A s \in DOMAIN steps : steps[s].task # task => steps'[s].status = steps[s].status
  BY <1>1, <1>3 DEF OnlyRow
<1>6. RowsTyped' /\ RunOK' /\ RestOK'
  BY <1>1, <1>2, <1>3, <1>4, <1>5, StaysAtWork, CoreTypes DEF OnlyRow, RowsTyped
<1>7. StepsOK'
  BY <1>1 DEF Core, StepsOK, OnlyRow
<1> QED BY <1>6, <1>7

LEMMA CoreReplan ==
  ASSUME Core, ReplanTask
  PROVE  RowsTyped' /\ RunOK' /\ RestOK' /\ StepsOK'
<1>1. /\ phase = "REPAIRING" /\ phase' = "EXECUTING" /\ UNCHANGED <<plan, status, task>>
      /\ step' = Len(steps) + 1 /\ step' \in DOMAIN steps'
      /\ current' = [current EXCEPT ![task] = step']
      /\ steps' \in Seq(StepRows)
      /\ \A s \in DOMAIN steps :
           /\ s \in DOMAIN steps' /\ steps'[s].task = steps[s].task
           /\ steps'[s].tried = steps[s].tried /\ steps'[s].passed = steps[s].passed
           /\ steps'[s].status = IF steps[s].task = task /\ steps[s].status # "DONE"
                                 THEN "SUPERSEDED" ELSE steps[s].status
      /\ \A s \in DOMAIN steps' \ DOMAIN steps :
           /\ steps'[s].task = task /\ steps'[s].tried = {}
           /\ steps'[s].status = IF s = step' THEN "IN_PROGRESS" ELSE "PENDING"
  BY ReplanRows DEF ReplanTask, Spend
<1>2. /\ task \in Tasks /\ step \in DOMAIN steps /\ steps[step].task = task
      /\ status[task] \in {"IN_PROGRESS", "BLOCKED"}
      /\ \A d \in plan.deps[task] : status[d] = "DONE"
      /\ Len(steps) \in Nat /\ DOMAIN steps = 1..Len(steps)
  BY <1>1, AtWork, StepFacts DEF Working, Core
<1>3. step' \notin DOMAIN steps /\ step' \in Nat
  BY <1>1, <1>2
<1>4. steps'[step'].status = "IN_PROGRESS" /\ steps'[step'].task = task
  BY <1>1, <1>3
<1>5. RowsTyped'
  BY <1>1, <1>2, <1>3, CoreTypes DEF RowsTyped
<1>6. RunOK'
  <2>1. current'[task] = step'
    BY <1>1, <1>2, CoreTypes DEF RowsTyped
  <2> QED BY <1>1, <1>2, <1>4, <2>1 DEF RunOK, Working
<1>7. RestOK'
  <2>1. \A t \in Tasks : status[t] \in {"PENDING", "READY", "DONE"} \/ t = task
    BY <1>1 DEF Core, RestOK, Ended
  <2>2. \A s \in DOMAIN steps' : steps'[s].status \in {"PENDING", "DONE", "SUPERSEDED"} \/ s = step'
    <3>1. \A s \in DOMAIN steps : \/ steps[s].status \in {"PENDING", "DONE", "SUPERSEDED"}
                                  \/ s = step
      BY <1>1 DEF Core, RestOK, Ended
    <3>2. ASSUME NEW s \in DOMAIN steps
          PROVE  steps'[s].status \in {"PENDING", "DONE", "SUPERSEDED"}
      BY <1>1, <1>2, <3>1
    <3> QED BY <1>1, <3>2
  <2>3. ASSUME NEW t \in Tasks, status'[t] \in {"PENDING", "READY"}
        PROVE  StepsOf(t)' # {} /\ \A s \in StepsOf(t)' : steps'[s].status = "PENDING"
    <3>1. t # task /\ status[t] \in {"PENDING", "READY"}
      BY <1>1, <1>2, <2>3
    <3>2. StepsOf(t) # {} /\ \A s \in StepsOf(t) : steps[s].status = "PENDING"
      BY <1>1, <3>1 DEF Core, RestOK, Ended
    <3>3. StepsOf(t)' = StepsOf(t)
      BY <1>1, <3>1 DEF StepsOf
    <3>4. \A s \in StepsOf(t) : steps'[s].status = steps[s].status
      BY <1>1, <3>1 DEF StepsOf
    <3> QED BY <3>2, <3>3, <3>4
  <2> QED BY <1>1, <2>1, <2>2, <2>3 DEF RestOK, Working
<1>8. StepsOK'
  <2>1. ASSUME NEW s \in DOMAIN steps
        PROVE  /\ steps'[s].status = "DONE" => steps'[s].passed
               /\ steps'[s].status = "PENDING" => steps'[s].tried = {}
    BY <1>1 DEF Core, StepsOK
  <2> QED BY <1>1, <2>1 DEF StepsOK
<1> QED BY <1>5, <1>6, <1>7, <1>8

LEMMA CoreRaise ==
  ASSUME Core, Raise
  PROVE  RowsTyped' /\ RunOK' /\ RestOK' /\ StepsOK'
<1>1. /\ phase' = "RAISED" /\ phase # "RAISED" /\ UNCHANGED <<plan, current, task, step>>
  BY RaiseRows DEF Raise, Ended
<1>2. RunOK' /\ RestOK'
  BY <1>1 DEF Ended, RunOK, RestOK, Working
<1>3. CASE phase # "VERIFYING"
  BY <1>1, <1>2, <1>3, RaiseRows, CoreTypes DEF RowsTyped, Core, StepsOK
<1>4. CASE phase = "VERIFYING"
  <2>1. /\ OnlyRow(step) /\ steps'[step].status # "PENDING" /\ task \in Tasks
        /\ steps[step].task = task /\ status[task] # "DONE" /\ status \in [Tasks -> TaskStatuses]
    BY <1>4, RaiseRows, CoreTypes DEF Core, RunOK, Working, RowsTyped
  <2>2. status' \in [Tasks -> TaskStatuses] /\ status'[task] # "DONE"
    BY <1>4, <2>1, RaiseRows DEF TaskStatuses
  <2>3. RowsTyped'
    BY <1>1, <2>1, <2>2, CoreTypes DEF RowsTyped, OnlyRow
  <2>4. StepsOK'
    <3>1. SUFFICES ASSUME NEW s \in DOMAIN steps
                   PROVE  /\ steps'[s].status = "DONE" => steps'[s].passed \/ status'[steps'[s].task] # "DONE"
                          /\ steps'[s].status = "PENDING" => steps'[s].tried = {}
      BY <1>1, <2>1 DEF StepsOK, OnlyRow
    <3>2. CASE s = step
      BY <2>1, <2>2, <3>2 DEF OnlyRow
    <3>3. CASE s # step
      BY <1>1, <2>1, <3>3 DEF OnlyRow, Core, StepsOK
    <3> QED BY <3>2, <3>3
  <2> QED BY <1>2, <2>3, <2>4
<1> QED BY <1>3, <1>4

\* Every step keeps rows and memory in agreement.
LEMMA CoreKept ==
  ASSUME Core, [Next]_vars
  PROVE  Core'
<1>1. CASE UNCHANGED vars
  <2> USE <1>1 DEF vars, rows, memory
  <2>1. TypeOK'
    BY DEF Core, TypeOK
  <2>2. RunOK'
    BY DEF Core, RunOK, Working
  <2>3. RestOK'
    BY DEF Core, RestOK, Working, StepsOf
  <2>4. StepsOK'
    BY DEF Core, StepsOK
  <2> QED BY <2>1, <2>2, <2>3, <2>4 DEF Core
<1>2. CASE Over
  BY <1>1, <1>2 DEF Over
<1>3. CASE Controller \/ Raise
  <2>1. RowsTyped' /\ RunOK' /\ RestOK' /\ StepsOK'
    BY <1>3, CorePlan, CoreStart, CoreSettle, CoreBlocked, CoreExecute, CoreRejected,
       CoreNextStep, CoreTask, CoreVerifyRaises, CoreGiveUp, CoreReplan, CoreRetry, CoreRaise
       DEF Controller
  <2>2. TypeOK'
    BY <1>3, <2>1, TypesFollow DEF Next
  <2> QED BY <2>1, <2>2 DEF Core
<1> QED BY <1>1, <1>2, <1>3 DEF Next

(***************************************************************************)
(* One thing at a time, and what is DONE                                   *)
(***************************************************************************)
\* While the run goes on, rows and memory leave no room for a second active task or step.
LEMMA OneThingInCore ==
  ASSUME Core, phase \notin Ended
  PROVE  OneThingAtATime
<1>1. ASSUME NEW t \in ActiveTasks(status)
      PROVE  t = task /\ \A d \in plan.deps[t] : status[d] = "DONE"
  <2>1. t \in Tasks /\ status[t] \in {"IN_PROGRESS", "VERIFYING"}
    BY CoreTypes DEF ActiveTasks, ActiveStatuses, RowsTyped
  <2>2. Working /\ t = task
    BY <2>1 DEF Core, RestOK
  <2> QED BY <2>2, AtWork
<1>2. ASSUME phase \in {"EXECUTING", "VERIFYING"}
      PROVE  /\ current[task] = step /\ steps[step].task = task
             /\ {s \in DOMAIN steps : steps[s].status = "IN_PROGRESS"} = {step}
  <2>1. Working /\ steps[step].status = "IN_PROGRESS"
    BY <1>2 DEF Working, Core, RunOK
  <2>2. \A s \in DOMAIN steps : s # step => steps[s].status # "IN_PROGRESS"
    BY DEF Core, RestOK
  <2> QED BY <2>1, <2>2, AtWork
<1> QED BY <1>1, <1>2 DEF OneThingAtATime

\* At the end a task may be left active, the one that was worked on.
ActiveOK ==
  phase \in Ended =>
    \A t \in ActiveTasks(status) : t = task /\ \A d \in plan.deps[t] : status[d] = "DONE"

LEMMA OneThing ==
  ASSUME Core, ActiveOK
  PROVE  OneThingAtATime
BY OneThingInCore DEF ActiveOK, OneThingAtATime, Ended

LEMMA ActiveKept ==
  ASSUME Core, ActiveOK, [Next]_vars
  PROVE  ActiveOK'
<1>1. CASE phase' \notin Ended
  BY <1>1 DEF ActiveOK
<1>2. CASE UNCHANGED vars
  BY <1>2 DEF vars, rows, memory, ActiveOK
<1>3. CASE phase' \in Ended /\ Next /\ ~UNCHANGED vars
  <2>1. SUFFICES \A t \in ActiveTasks(status') :
                   t = task' /\ \A d \in plan'.deps[t] : status'[d] = "DONE"
    BY DEF ActiveOK
  <2>2. \A t \in ActiveTasks(status) : t = task /\ \A d \in plan.deps[t] : status[d] = "DONE"
    BY OneThing DEF OneThingAtATime
  <2>3. CASE Settle
    <3>1. status' \in [Tasks -> {"PENDING", "READY", "DONE"}]
      BY <2>3, FreshStatuses DEF Settle, Core
    <3>2. ActiveTasks(status') = {}
      BY <3>1 DEF ActiveTasks, ActiveStatuses
    <3> QED BY <3>2
  <2>4. CASE DependencyBlocked \/ GiveUp
    <3>1. task \in Tasks /\ \E new \in {"BLOCKED", "FAILED"} : status' = [status EXCEPT ![task] = new]
      BY <2>4, AtWork DEF DependencyBlocked, GiveUp, SetStatus, Working
    <3>2. phase \notin Ended /\ Working
      BY <2>4 DEF DependencyBlocked, GiveUp, Ended, Working
    <3>3. \A t \in Tasks : status'[t] \notin ActiveStatuses
      <4>1. \A t \in Tasks : t # task => status[t] \in {"PENDING", "READY", "DONE"}
        BY <3>2 DEF Core, RestOK
      <4> QED BY <3>1, <4>1, CoreTypes DEF ActiveStatuses, RowsTyped
    <3>4. ActiveTasks(status') = {}
      BY <3>1, <3>3, CoreTypes DEF ActiveTasks, RowsTyped
    <3> QED BY <3>4
  <2>5. CASE VerifyRaises \/ Raise
    <3>1. UNCHANGED <<plan, task>> /\ (VerifyRaises => status' = status)
      BY <2>5 DEF VerifyRaises, Raise
    <3>2. CASE status' = status
      BY <2>2, <3>1, <3>2
    <3>3. CASE status' # status
      <4>1. /\ Working /\ task \in Tasks /\ status \in [Tasks -> TaskStatuses]
            /\ status' = [status EXCEPT ![task] = "VERIFYING"]
        BY <2>5, <3>1, <3>3, RaiseRows, CoreTypes, AtWork DEF Working, RowsTyped
      <4>2. \A d \in plan.deps[task] : status[d] = "DONE" /\ d # task
        BY <4>1 DEF Core, RunOK
      <4>3. \A t \in Tasks : t # task => status'[t] = status[t]
        BY <4>1
      <4>4. \A t \in ActiveTasks(status') : t \in ActiveTasks(status) \/ t = task
        BY <4>1 DEF ActiveTasks
      <4>5. \A d \in plan.deps[task] : status'[d] = "DONE"
        BY <4>1, <4>2
      <4> QED BY <2>2, <3>1, <4>4, <4>5
    <3> QED BY <3>2, <3>3
  <2>6. Settle \/ DependencyBlocked \/ GiveUp \/ VerifyRaises \/ Raise
    <3>1. ~Over
      BY <1>3 DEF Over
    <3>2. ~Plan /\ ~Start /\ ~Execute /\ ~StepRejected /\ ~NextStep /\ ~ReplanTask /\ ~Retry
      BY <1>3 DEF Plan, Start, Execute, StepRejected, NextStep, ReplanTask, Retry, Enter, Ended
    <3>3. ~VerifyTask
      BY <1>3 DEF VerifyTask, Enter, Ended
    <3> QED BY <1>3, <3>1, <3>2, <3>3 DEF Next, Controller
  <2> QED BY <2>3, <2>4, <2>5, <2>6
<1> QED BY <1>1, <1>2, <1>3

\* A DONE task stands on DONE steps and DONE tasks.
DoneTasksOK ==
  \A t \in Tasks : status[t] = "DONE" =>
    /\ \A s \in Live(t) : steps[s].status = "DONE"
    /\ \A d \in plan.deps[t] : status[d] = "DONE"

\* A step of the run that leaves the DONE tasks alone keeps them complete.
LEMMA DoneTasksAlone ==
  ASSUME Core, DoneTasksOK, plan' = plan,
         \A t \in Tasks : status'[t] = "DONE" <=> status[t] = "DONE",
         \A s \in DOMAIN steps' : status[steps'[s].task] = "DONE" =>
           /\ s \in DOMAIN steps /\ steps'[s].task = steps[s].task
           /\ steps'[s].status = steps[s].status
  PROVE  DoneTasksOK'
<1>1. SUFFICES ASSUME NEW t \in Tasks, status'[t] = "DONE"
               PROVE  /\ \A s \in Live(t)' : steps'[s].status = "DONE"
                      /\ \A d \in plan'.deps[t] : status'[d] = "DONE"
  BY DEF DoneTasksOK
<1>2. /\ \A s \in Live(t) : steps[s].status = "DONE"
      /\ \A d \in plan.deps[t] : status[d] = "DONE"
  BY <1>1 DEF DoneTasksOK
<1>3. \A s \in Live(t)' : s \in Live(t) /\ steps'[s].status = steps[s].status
  BY <1>1 DEF Live, StepsOf
<1>4. plan.deps[t] \in SUBSET Tasks
  BY DraftFacts DEF Core
<1> QED BY <1>2, <1>3, <1>4

LEMMA DoneTasksKept ==
  ASSUME Core, DoneTasksOK, [Next]_vars
  PROVE  DoneTasksOK'
<1>0. /\ \A t \in Tasks : plan.deps[t] \in SUBSET Tasks
      /\ \A s \in DOMAIN steps : steps[s].task \in Tasks
      /\ status \in [Tasks -> TaskStatuses]
  BY StepFacts, DraftFacts, CoreTypes DEF Core, StepRows, RowsTyped
\* Only the row of a step of the task at work changes, and only the task's status.
<1>1. ASSUME Working, plan' = plan, DOMAIN steps' = DOMAIN steps,
             \A s \in DOMAIN steps : steps'[s].task = steps[s].task,
             \A s \in DOMAIN steps : steps[s].task # task => steps'[s] = steps[s],
             status' = status \/ \E new \in {"BLOCKED", "FAILED", "IN_PROGRESS"} :
                                   status' = [status EXCEPT ![task] = new]
      PROVE  DoneTasksOK'
  <2>1. task \in Tasks /\ status[task] # "DONE"
    BY <1>1, AtWork
  <2>2. \A t \in Tasks : status'[t] = "DONE" <=> status[t] = "DONE"
    BY <1>0, <1>1, <2>1
  <2> QED BY <1>1, <2>1, <2>2, DoneTasksAlone
<1>2. ASSUME Working, OnlyRow(step)
      PROVE  /\ DOMAIN steps' = DOMAIN steps
             /\ \A s \in DOMAIN steps : steps'[s].task = steps[s].task
             /\ \A s \in DOMAIN steps : steps[s].task # task => steps'[s] = steps[s]
  BY <1>2, AtWork DEF OnlyRow
<1>3. CASE Plan
  <2>1. plan' = plan /\ \A t \in Tasks : status'[t] # "DONE"
    BY <1>3 DEF Plan, Core, RunOK
  <2> QED BY <2>1 DEF DoneTasksOK
<1>4. CASE Start
  <2>1. /\ plan' = plan /\ status[task'] \in {"PENDING", "READY"}
        /\ steps[step'].task = task' /\ OnlyRow(step')
        /\ \A t \in Tasks : status'[t] = "DONE" <=> status[t] = "DONE"
    BY <1>4, StartRows DEF Start
  <2>2. \A s \in DOMAIN steps' : status[steps'[s].task] = "DONE" => s # step'
    BY <2>1 DEF OnlyRow
  <2> QED BY <2>1, <2>2, DoneTasksAlone DEF OnlyRow
<1>5. CASE Settle
  <2>1. /\ plan' = plan /\ steps' = steps
        /\ \A t \in Tasks : status'[t] = "DONE" <=> status[t] = "DONE"
    BY <1>5, FreshStatuses DEF Settle, Core
  <2> QED BY <2>1, DoneTasksAlone
<1>6. CASE DependencyBlocked
  BY <1>1, <1>2, <1>6, BlockedRows DEF DependencyBlocked, Working
<1>7. CASE Execute
  BY <1>1, <1>7 DEF Execute, Working, rows
<1>8. CASE StepRejected
  BY <1>1, <1>2, <1>8, RejectedRows DEF StepRejected, Working
<1>9. CASE NextStep
  <2>1. /\ Working /\ plan' = plan /\ status' = status
        /\ DOMAIN steps' = DOMAIN steps
        /\ \A s \in DOMAIN steps : steps'[s].task = steps[s].task
        /\ \A s \in DOMAIN steps : s \notin {step, step'} => steps'[s] = steps[s]
        /\ steps[step'].task = task
    BY <1>9, NextStepRows DEF NextStep, Working
  <2>2. \A s \in DOMAIN steps : steps[s].task # task => steps'[s] = steps[s]
    BY <2>1, AtWork
  <2> QED BY <1>1, <2>1, <2>2
<1>10. CASE VerifyTask
  <2>1. /\ Working /\ plan' = plan /\ OnlyRow(step)
        /\ \A s \in Live(task) : steps'[s].status = "DONE"
        /\ steps'[step].status = "DONE"
    BY <1>10, TaskRows DEF VerifyTask, LastStepPassed, Working
  <2>2. CASE \/ status' = [status EXCEPT ![task] = "IN_PROGRESS"]
             \/ status' = [status EXCEPT ![task] = "BLOCKED"]
    BY <1>1, <1>2, <2>1, <2>2
  <2>3. CASE status' = [status EXCEPT ![task] = "DONE"]
    <3>1. \A t \in Tasks : status'[t] = IF t = task THEN "DONE" ELSE status[t]
      BY <1>0, <2>3
    <3>2. SUFFICES ASSUME NEW t \in Tasks, status'[t] = "DONE"
                   PROVE  /\ \A s \in Live(t)' : steps'[s].status = "DONE"
                          /\ \A d \in plan'.deps[t] : status'[d] = "DONE"
      BY DEF DoneTasksOK
    <3>3. CASE t = task
      <4>1. \A s \in Live(t)' : s \in Live(t) \/ s = step
        BY <2>1 DEF Live, StepsOf, OnlyRow
      <4>2. \A d \in plan.deps[t] : status[d] = "DONE" /\ d \in Tasks
        BY <1>0, <2>1, <3>3, AtWork
      <4> QED BY <2>1, <3>1, <3>3, <4>1, <4>2
    <3>4. CASE t # task
      <4>1. /\ \A s \in Live(t) : steps[s].status = "DONE"
            /\ \A d \in plan.deps[t] : status[d] = "DONE" /\ d \in Tasks
        BY <1>0, <3>1, <3>2, <3>4 DEF DoneTasksOK
      <4>2. \A s \in Live(t)' : s \in Live(t) /\ steps'[s] = steps[s]
        BY <1>2, <2>1, <3>4 DEF Live, StepsOf
      <4> QED BY <2>1, <3>1, <4>1, <4>2
    <3> QED BY <3>3, <3>4
  <2> QED BY <2>2, <2>3, <1>10, TaskRows
<1>11. CASE VerifyRaises
  BY <1>1, <1>2, <1>11, RaisedRows DEF VerifyRaises, Working, LastStepPassed
<1>12. CASE GiveUp
  BY <1>1, <1>2, <1>12, GiveUpRows DEF GiveUp, Spend, Working
<1>13. CASE Retry
  BY <1>1, <1>2, <1>13, RetryRows DEF Retry, Spend, Working
<1>14. CASE ReplanTask
  <2>1. /\ Working /\ plan' = plan /\ status' = status
        /\ \A s \in DOMAIN steps :
             /\ steps'[s].task = steps[s].task
             /\ steps[s].task # task => steps'[s].status = steps[s].status
        /\ \A s \in DOMAIN steps' \ DOMAIN steps : steps'[s].task = task
    BY <1>14, ReplanRows DEF ReplanTask, Spend, Working
  <2>2. status[task] # "DONE"
    BY <2>1, AtWork
  <2> QED BY <2>1, <2>2, DoneTasksAlone
<1>15. CASE Raise
  <2>1. CASE phase = "VERIFYING"
    <3>1. /\ plan' = plan /\ Working /\ OnlyRow(step) /\ steps[step].task = task /\ status[task] # "DONE"
          /\ task \in Tasks /\ status \in [Tasks -> TaskStatuses]
      BY <1>15, <2>1, RaiseRows, AtWork, CoreTypes DEF Raise, Working, RowsTyped
    <3>2. \A t \in Tasks : status'[t] = "DONE" <=> status[t] = "DONE"
      BY <1>15, <2>1, <3>1, RaiseRows
    <3> QED BY <3>1, <3>2, DoneTasksAlone DEF OnlyRow
  <2>2. CASE phase # "VERIFYING"
    BY <1>15, <2>2, DoneTasksAlone DEF Raise
  <2> QED BY <2>1, <2>2
<1>16. CASE UNCHANGED vars
  BY <1>16, DoneTasksAlone DEF vars, rows
<1>17. CASE Over
  BY <1>16, <1>17 DEF Over
<1> QED BY <1>3, <1>4, <1>5, <1>6, <1>7, <1>8, <1>9, <1>10, <1>11, <1>12, <1>13, <1>14, <1>15,
           <1>16, <1>17 DEF Next, Controller

\* The run is DONE when every task is.
LEMMA DoneRunKept ==
  ASSUME Core, phase = "DONE" => \A t \in Tasks : status[t] = "DONE", [Next]_vars
  PROVE  phase' = "DONE" => \A t \in Tasks : status'[t] = "DONE"
<1>1. CASE Settle
  BY <1>1 DEF Settle, Settled, Enter
<1>2. CASE GiveUp
  BY <1>2, GiveUpRows
<1>3. CASE Over \/ UNCHANGED vars
  BY <1>3 DEF Over, vars, rows, memory
<1>4. CASE Raise
  BY <1>4 DEF Raise, Enter
<1>5. CASE Plan \/ Start \/ DependencyBlocked \/ Execute \/ StepRejected
  BY <1>5 DEF Plan, Start, DependencyBlocked, Execute, StepRejected, Enter
<1>6. CASE NextStep \/ VerifyTask \/ VerifyRaises \/ ReplanTask \/ Retry
  BY <1>6 DEF NextStep, VerifyTask, VerifyRaises, ReplanTask, Retry, Enter
<1> QED BY <1>1, <1>2, <1>3, <1>4, <1>5, <1>6 DEF Next, Controller

\* A DONE task has only steps that passed.
LEMMA DoneInCore ==
  ASSUME Core, DoneTasksOK, phase = "DONE" => \A t \in Tasks : status[t] = "DONE"
  PROVE  DoneIsComplete
<1>1. \A t \in Tasks : status[t] = "DONE" =>
        \A s \in Live(t) : steps[s].status = "DONE" => steps[s].passed
  BY DEF Core, StepsOK, Live, StepsOf
<1> QED BY <1>1 DEF DoneIsComplete, DoneTasksOK

(***************************************************************************)
(* Decisions, approaches and accepted paths                                *)
(***************************************************************************)
\* What is not a repair leaves the last decision alone.
LEMMA DecisionAlone ==
  ASSUME [Next]_vars, ~GiveUp, ~ReplanTask, ~Retry
  PROVE  decided' = decided /\ action' = action
<1>1. CASE Plan \/ Start \/ Settle \/ DependencyBlocked
  BY <1>1 DEF Plan, Start, Settle, DependencyBlocked
<1>2. CASE Execute \/ StepRejected \/ NextStep
  BY <1>2 DEF Execute, StepRejected, NextStep, rows
<1>3. CASE VerifyTask \/ VerifyRaises \/ Raise
  BY <1>3 DEF VerifyTask, VerifyRaises, Raise
<1>4. CASE Over \/ UNCHANGED vars
  BY <1>4 DEF Over, vars, rows, memory
<1> QED BY <1>1, <1>2, <1>3, <1>4 DEF Next, Controller

\* The selector retries a step only below its limit, and repairs only below the task's.
LEMMA StrategyFacts ==
  ASSUME Core, phase = "REPAIRING", FailedAttempts(task) \in Nat
  PROVE  /\ Strategy \in {"RETRY_STEP", "REPLAN_TASK", "GIVE_UP"}
         /\ Strategy = "RETRY_STEP" => /\ steps[step].failed < MaxStepAttempts
                                       /\ Fingerprint(verdict) \notin steps[step].tried
         /\ Strategy # "GIVE_UP" => /\ spent[task] + 1 < MaxTaskAttempts
                                    /\ FailedAttempts(task) < MaxTaskAttempts
<1>1. /\ task \in Tasks /\ steps[step] \in StepRows
      /\ spent[task] \in Nat /\ steps[step].spent \in Nat /\ steps[step].failed \in Nat
  <2>1. task \in Tasks /\ steps[step] \in StepRows
    BY AtWork DEF Working
  <2> QED BY <2>1 DEF Core, TypeOK, StepRows
<1>2. MaxStepAttempts \in Nat /\ MaxTaskAttempts \in Nat
  BY BudgetAssumption
<1>3. TaskAttempts < MaxTaskAttempts =>
        spent[task] + 1 < MaxTaskAttempts /\ FailedAttempts(task) < MaxTaskAttempts
  BY <1>1, <1>2 DEF TaskAttempts, Charge, Largest
<1>4. StepAttempts < MaxStepAttempts => steps[step].failed < MaxStepAttempts
  BY <1>1, <1>2 DEF StepAttempts, Largest
<1>5. TaskAttempts \in Nat /\ StepAttempts \in Nat
  BY <1>1 DEF TaskAttempts, StepAttempts, Charge, Largest
<1>6. /\ Selected \in {"RETRY_STEP", "REPLAN_TASK", "GIVE_UP"}
      /\ Selected = "RETRY_STEP" => StepAttempts < MaxStepAttempts
      /\ Selected # "GIVE_UP" => TaskAttempts < MaxTaskAttempts
  BY <1>2, <1>5 DEF Selected
<1> QED BY <1>3, <1>4, <1>6 DEF Strategy

LEMMA DecisionsKept ==
  ASSUME Core, DecisionsAgree, [Next]_vars,
         phase = "REPAIRING" => FailedAttempts(task) \in Nat
  PROVE  DecisionsAgree'
<1>1. CASE GiveUp \/ ReplanTask \/ Retry
  <2>1. phase = "REPAIRING" /\ decided' = DecisionScope(Strategy) /\ action' = Strategy
    BY <1>1 DEF GiveUp, ReplanTask, Retry, Spend
  <2> QED BY <2>1, StrategyFacts DEF DecisionsAgree, DecisionScope
<1>2. CASE ~GiveUp /\ ~ReplanTask /\ ~Retry
  BY <1>2, DecisionAlone DEF DecisionsAgree
<1> QED BY <1>1, <1>2

LEMMA ApproachKept ==
  ASSUME Core, ApproachOK, [Next]_vars,
         phase = "REPAIRING" => FailedAttempts(task) \in Nat
  PROVE  ApproachOK'
<1>1. CASE Plan \/ Settle \/ DependencyBlocked \/ StepRejected \/ VerifyRaises \/ Raise
  BY <1>1 DEF Plan, Settle, Settled, DependencyBlocked, StepRejected, VerifyRaises, Raise, Enter,
              ApproachOK
<1>2. CASE Start
  <2>1. step' \in DOMAIN steps /\ steps[step'].status = "PENDING" /\ steps[step'] \in StepRows
        /\ steps'[step'] = [steps[step'] EXCEPT !.status = "IN_PROGRESS"]
    BY <1>2, StartRows, StepFacts DEF Core
  <2>2. steps'[step'].tried = {}
    BY <2>1 DEF Core, StepsOK, StepRows
  <2> QED BY <2>2 DEF ApproachOK
<1>3. CASE Execute
  BY <1>3 DEF Execute, rows, ApproachOK
<1>4. CASE NextStep
  BY <1>4 DEF NextStep, ApproachOK
<1>5. CASE VerifyTask
  BY <1>5, TaskRows DEF ApproachOK
<1>6. CASE GiveUp
  BY <1>6, GiveUpRows DEF ApproachOK, Ended
<1>7. CASE ReplanTask
  BY <1>7, ReplanRows DEF ApproachOK, Repaired
<1>8. CASE Retry
  <2>1. /\ phase = "REPAIRING" /\ approach' = Fingerprint(verdict) /\ action' = Strategy
        /\ step' = step /\ steps'[step].tried = steps[step].tried
        /\ Strategy = "RETRY_STEP" \/ Strategy = "REPLAN_TASK"
    BY <1>8, RetryRows DEF Retry, Repaired
  <2> QED BY <2>1, StrategyFacts DEF ApproachOK
<1>9. CASE Over \/ UNCHANGED vars
  BY <1>9 DEF Over, vars, rows, memory, ApproachOK
<1> QED BY <1>1, <1>2, <1>3, <1>4, <1>5, <1>6, <1>7, <1>8, <1>9 DEF Next, Controller

\* Rows that keep their files, and are not brought back, do not get into each other's way.
LEMMA PathsAlone ==
  ASSUME AcceptedWorkIsKept, DOMAIN steps' = DOMAIN steps,
         \A s \in DOMAIN steps : /\ steps'[s].task = steps[s].task
                                 /\ steps'[s].paths = steps[s].paths
                                 /\ steps'[s].status # "SUPERSEDED" => steps[s].status # "SUPERSEDED"
  PROVE  AcceptedWorkIsKept'
<1>1. \A t \in Tasks : \A s \in Live(t)' : s \in Live(t)
  BY DEF Live, StepsOf
<1>2. \A t \in Tasks : \A s \in Live(t)' : steps'[s].paths = steps[s].paths
  BY DEF Live, StepsOf
<1> QED BY <1>1, <1>2 DEF AcceptedWorkIsKept

LEMMA PathsKept ==
  ASSUME Core, AcceptedWorkIsKept, [Next]_vars
  PROVE  AcceptedWorkIsKept'
<1>1. CASE Plan
  <2>1. /\ DOMAIN steps' = DOMAIN plan.steps
        /\ \A s \in DOMAIN steps' : /\ steps'[s].task = plan.steps[s].task
                                    /\ steps'[s].paths = plan.steps[s].paths
    BY <1>1, PlanRows
  <2>2. \A s, u \in DOMAIN plan.steps : s # u /\ plan.steps[s].task = plan.steps[u].task =>
                                        plan.steps[s].paths \cap plan.steps[u].paths = {}
    BY DraftFacts DEF Core
  <2> QED BY <2>1, <2>2 DEF AcceptedWorkIsKept, Live, StepsOf
<1>2. CASE Start
  <2>1. OnlyRow(step') /\ step' \in DOMAIN steps /\ steps[step'].status = "PENDING"
    BY <1>2, StartRows
  <2> QED BY <2>1, PathsAlone DEF OnlyRow
<1>3. ASSUME Working, OnlyRow(step)
      PROVE  AcceptedWorkIsKept'
  <2>1. steps[step].status # "SUPERSEDED"
    BY <1>3 DEF Core, RunOK, Working
  <2> QED BY <1>3, <2>1, PathsAlone DEF OnlyRow
<1>4. CASE Settle \/ Execute
  BY <1>4, PathsAlone DEF Settle, Execute, rows
<1>5. CASE DependencyBlocked
  BY <1>3, <1>5, BlockedRows DEF Working
<1>6. CASE StepRejected
  BY <1>3, <1>6, RejectedRows DEF Working
<1>7. CASE NextStep
  <2>1. /\ Working /\ DOMAIN steps' = DOMAIN steps
        /\ steps[step'].status = "PENDING" /\ steps[step].status = "IN_PROGRESS"
        /\ \A s \in DOMAIN steps : s \notin {step, step'} => steps'[s] = steps[s]
        /\ \A s \in DOMAIN steps : /\ steps'[s].task = steps[s].task
                                   /\ steps'[s].paths = steps[s].paths
    BY <1>7, NextStepRows DEF Working
  <2> QED BY <2>1, PathsAlone
<1>8. CASE VerifyTask
  BY <1>3, <1>8, TaskRows DEF Working, LastStepPassed
<1>9. CASE VerifyRaises
  BY <1>3, <1>9, RaisedRows DEF Working, LastStepPassed
<1>10. CASE GiveUp
  BY <1>3, <1>10, GiveUpRows DEF Working, Repaired
<1>11. CASE Retry
  BY <1>3, <1>11, RetryRows DEF Working, Repaired
<1>12. CASE ReplanTask
  <2>1. /\ \A s \in DOMAIN steps :
             /\ steps'[s].task = steps[s].task /\ steps'[s].paths = steps[s].paths
             /\ steps'[s].status = IF steps[s].task = task /\ steps[s].status # "DONE"
                                   THEN "SUPERSEDED" ELSE steps[s].status
        /\ \A s \in DOMAIN steps' \ DOMAIN steps :
             steps'[s].task = task /\ steps'[s].paths \cap Accepted = {}
        /\ \A s, u \in DOMAIN steps' \ DOMAIN steps :
             s # u => steps'[s].paths \cap steps'[u].paths = {}
    BY <1>12, ReplanRows
  <2>2. SUFFICES ASSUME NEW t \in Tasks, NEW s \in Live(t)', NEW u \in Live(t)', s # u
                 PROVE  steps'[s].paths \cap steps'[u].paths = {}
    BY DEF AcceptedWorkIsKept
  <2>3. s \in DOMAIN steps' /\ u \in DOMAIN steps' /\ steps'[s].task = t /\ steps'[u].task = t
        /\ steps'[s].status # "SUPERSEDED" /\ steps'[u].status # "SUPERSEDED"
    BY <2>2 DEF Live, StepsOf
  <2>4. ASSUME NEW a \in DOMAIN steps, steps[a].task = task, steps'[a].status # "SUPERSEDED"
        PROVE  steps[a].paths \subseteq Accepted
    BY <2>1, <2>4 DEF Accepted, StepsOf
  <2>5. CASE s \in DOMAIN steps /\ u \in DOMAIN steps
    <3>1. s \in Live(t) /\ u \in Live(t)
      BY <2>1, <2>3, <2>5 DEF Live, StepsOf
    <3> QED BY <2>1, <2>2, <2>5, <3>1 DEF AcceptedWorkIsKept
  <2>6. CASE s \in DOMAIN steps /\ u \notin DOMAIN steps
    <3>1. t = task /\ steps[s].task = task /\ steps'[u].paths \cap Accepted = {}
      BY <2>1, <2>3, <2>6
    <3> QED BY <2>1, <2>3, <2>4, <2>6, <3>1
  <2>7. CASE s \notin DOMAIN steps /\ u \in DOMAIN steps
    <3>1. t = task /\ steps[u].task = task /\ steps'[s].paths \cap Accepted = {}
      BY <2>1, <2>3, <2>7
    <3> QED BY <2>1, <2>3, <2>4, <2>7, <3>1
  <2>8. CASE s \notin DOMAIN steps /\ u \notin DOMAIN steps
    BY <2>1, <2>2, <2>3, <2>8
  <2> QED BY <2>5, <2>6, <2>7, <2>8
<1>13. CASE Raise
  <2>1. CASE phase = "VERIFYING"
    BY <1>3, <1>13, <2>1, RaiseRows DEF Working
  <2>2. CASE phase # "VERIFYING"
    BY <1>13, <2>2, PathsAlone, RaiseRows
  <2> QED BY <2>1, <2>2
<1>14. CASE Over \/ UNCHANGED vars
  BY <1>14, PathsAlone DEF Over, vars, rows
<1> QED BY <1>1, <1>2, <1>4, <1>5, <1>6, <1>7, <1>8, <1>9, <1>10, <1>11, <1>12, <1>13, <1>14
     DEF Next, Controller

(***************************************************************************)
(* Budgets                                                                 *)
(***************************************************************************)
\* The attempts on steps of a task that were not accepted, each as step and number.
Fails(t) == UNION {{s} \X (1..steps[s].failed) : s \in StepsOf(t)}

\* Only finitely many attempts and repairs were made.
CountsOK == IsFiniteSet(Charges) /\ \A t \in Tasks : IsFiniteSet(Fails(t))

LEMMA FailedIsCount ==
  ASSUME CountsOK, NEW t \in Tasks
  PROVE  FailedAttempts(t) = Cardinality(Fails(t)) /\ FailedAttempts(t) \in Nat
BY FS_CardinalityType DEF CountsOK, Fails, FailedAttempts

LEMMA FailsMember ==
  ASSUME NEW t, NEW a
  PROVE  a \in Fails(t) <=> \E s \in StepsOf(t) : \E n \in 1..steps[s].failed : a = <<s, n>>
<1>1. ASSUME NEW s \in StepsOf(t)
      PROVE  a \in {s} \X (1..steps[s].failed) <=> \E n \in 1..steps[s].failed : a = <<s, n>>
  OBVIOUS
<1> QED BY <1>1 DEF Fails

LEMMA FailsMemberNext ==
  ASSUME NEW t, NEW a
  PROVE  a \in Fails(t)' <=> \E s \in StepsOf(t)' : \E n \in 1..steps'[s].failed : a = <<s, n>>
<1>1. ASSUME NEW s \in StepsOf(t)'
      PROVE  a \in {s} \X (1..steps'[s].failed) <=> \E n \in 1..steps'[s].failed : a = <<s, n>>
  OBVIOUS
<1> QED BY <1>1 DEF Fails

\* A step of the run in which no attempt was closed as failed.
LEMMA FailsSame ==
  ASSUME Core, NEW t \in Tasks,
         \A s \in DOMAIN steps : /\ s \in DOMAIN steps' /\ steps'[s].task = steps[s].task
                                 /\ steps'[s].failed = steps[s].failed,
         \A s \in DOMAIN steps' \ DOMAIN steps : steps'[s].failed = 0
  PROVE  Fails(t)' = Fails(t)
<1>1. ASSUME NEW s \in StepsOf(t)' PROVE s \in StepsOf(t) \/ 1..steps'[s].failed = {}
  <2>1. CASE s \in DOMAIN steps
    BY <1>1, <2>1 DEF StepsOf
  <2>2. CASE s \notin DOMAIN steps
    <3>1. steps'[s].failed = 0
      BY <1>1, <2>2 DEF StepsOf
    <3>2. 1..0 = {}
      OBVIOUS
    <3> QED BY <3>1, <3>2
  <2> QED BY <2>1, <2>2
<1>2. ASSUME NEW s \in StepsOf(t) PROVE s \in StepsOf(t)' /\ steps'[s].failed = steps[s].failed
  BY <1>2 DEF StepsOf
<1>3. \A a : a \in Fails(t)' <=> a \in Fails(t)
  BY <1>1, <1>2, FailsMember, FailsMemberNext
<1> QED BY <1>3

\* A step of the run that closed an attempt on a step as failed.
LEMMA FailsOne ==
  ASSUME Core, Working, OnlyRow(step), steps'[step].failed = steps[step].failed + 1,
         NEW t \in Tasks
  PROVE  Fails(t)' = IF t = task THEN Fails(t) \cup {<<step, steps[step].failed + 1>>}
                     ELSE Fails(t)
<1>1. /\ step \in DOMAIN steps /\ steps[step].task = task /\ steps[step].failed \in Nat
      /\ StepsOf(t)' = StepsOf(t)
      /\ \A s \in DOMAIN steps : s # step => steps'[s].failed = steps[s].failed
  <2>1. step \in DOMAIN steps /\ steps[step].task = task /\ steps[step] \in StepRows
    BY AtWork
  <2> QED BY <2>1 DEF OnlyRow, StepsOf, StepRows
<1>2. step \in StepsOf(t) <=> t = task
  BY <1>1 DEF StepsOf
<1>3. 1..steps'[step].failed = 1..steps[step].failed \cup {steps[step].failed + 1}
  BY <1>1
<1>4. \A s \in StepsOf(t) : s # step => steps'[s].failed = steps[s].failed
  BY <1>1 DEF StepsOf
<1> DEFINE new == <<step, steps[step].failed + 1>>
<1>5. CASE t = task
  <2>1. ASSUME NEW a PROVE a \in Fails(t)' <=> a \in Fails(t) \cup {new}
    <3>1. a \in Fails(t)' <=> \/ \E s \in StepsOf(t) \ {step} : \E n \in 1..steps[s].failed : a = <<s, n>>
                              \/ \E n \in 1..steps'[step].failed : a = <<step, n>>
      <4>1. a \in Fails(t)' <=> \E s \in StepsOf(t) : \E n \in 1..steps'[s].failed : a = <<s, n>>
        BY <1>1, FailsMemberNext
      <4> QED BY <4>1, <1>2, <1>4, <1>5
    <3>2. a \in Fails(t) <=> \/ \E s \in StepsOf(t) \ {step} : \E n \in 1..steps[s].failed : a = <<s, n>>
                             \/ \E n \in 1..steps[step].failed : a = <<step, n>>
      BY <1>1, <1>2, <1>5, FailsMember
    <3>3. (\E n \in 1..steps'[step].failed : a = <<step, n>>)
             <=> (\E n \in 1..steps[step].failed : a = <<step, n>>) \/ a = new
      BY <1>3
    <3> QED BY <3>1, <3>2, <3>3
  <2>2. Fails(t)' = Fails(t) \cup {new}
    <3> HIDE DEF new
    <3> QED BY <2>1
  <2> QED BY <2>2, <1>5
<1>6. CASE t # task
  <2>1. ASSUME NEW a PROVE a \in Fails(t)' <=> a \in Fails(t)
    <3>1. a \in Fails(t)' <=> \E s \in StepsOf(t) : \E n \in 1..steps'[s].failed : a = <<s, n>>
      BY <1>1, FailsMemberNext
    <3>2. a \in Fails(t) <=> \E s \in StepsOf(t) : \E n \in 1..steps[s].failed : a = <<s, n>>
      BY FailsMember
    <3>3. \A s \in StepsOf(t) : steps'[s].failed = steps[s].failed
      BY <1>2, <1>4, <1>6
    <3> QED BY <3>1, <3>2, <3>3
  <2>2. Fails(t)' = Fails(t)
    BY <2>1
  <2> QED BY <2>2, <1>6
<1> QED BY <1>5, <1>6

\* So the attempts are one more.
LEMMA FailedOne ==
  ASSUME Core, CountsOK, Working, OnlyRow(step), steps'[step].failed = steps[step].failed + 1
  PROVE  /\ \A t \in Tasks : IsFiniteSet(Fails(t)')
         /\ \A t \in Tasks : FailedAttempts(t)' <= IF t = task THEN FailedAttempts(t) + 1
                                                   ELSE FailedAttempts(t)
<1>1. SUFFICES ASSUME NEW t \in Tasks
               PROVE  /\ IsFiniteSet(Fails(t)')
                      /\ FailedAttempts(t)' <= IF t = task THEN FailedAttempts(t) + 1
                                               ELSE FailedAttempts(t)
  OBVIOUS
<1> DEFINE old == Fails(t)
           new == <<step, steps[step].failed + 1>>
<1>2. IsFiniteSet(old) /\ Cardinality(old) \in Nat /\ FailedAttempts(t) = Cardinality(old)
  BY FailedIsCount DEF CountsOK
<1>3. FailedAttempts(t)' = Cardinality(Fails(t)')
  BY DEF FailedAttempts, Fails
<1>4. Fails(t)' = IF t = task THEN old \cup {new} ELSE old
  BY FailsOne
<1> HIDE DEF old, new
<1>5. IsFiniteSet(old \cup {new}) /\ Cardinality(old \cup {new}) <= Cardinality(old) + 1
  <2>1. /\ IsFiniteSet(old \cup {new})
        /\ Cardinality(old \cup {new}) = IF new \in old THEN Cardinality(old) ELSE Cardinality(old) + 1
    BY <1>2, FS_AddElement
  <2> QED BY <1>2, <2>1
<1> QED BY <1>2, <1>3, <1>4, <1>5

\* Or the same.
LEMMA FailedSame ==
  ASSUME Core, CountsOK, \A t \in Tasks : Fails(t)' = Fails(t)
  PROVE  \A t \in Tasks : FailedAttempts(t)' = FailedAttempts(t) /\ IsFiniteSet(Fails(t)')
BY DEF FailedAttempts, Fails, CountsOK

\* A repair is one more charge.
LEMMA ChargedOne ==
  ASSUME Core, CountsOK, Repaired
  PROVE  /\ \A t \in Tasks : spent'[t] = IF t = task THEN spent[t] + 1 ELSE spent[t]
         /\ IsFiniteSet(Charges') /\ Cardinality(Charges') = Cardinality(Charges) + 1
<1>1. task \in Tasks /\ spent \in [Tasks -> Nat]
  BY AtWork DEF Working, Repaired, Core, TypeOK
<1>2. \A t \in Tasks : spent'[t] = IF t = task THEN spent[t] + 1 ELSE spent[t]
  BY <1>1 DEF Repaired
<1> DEFINE new == <<task, spent[task] + 1>>
           old == Charges
<1>3. ASSUME NEW a PROVE a \in Charges <=> \E t \in Tasks : \E n \in 1..spent[t] : a = <<t, n>>
  <2>1. ASSUME NEW t \in Tasks PROVE a \in {t} \X (1..spent[t]) <=> \E n \in 1..spent[t] : a = <<t, n>>
    OBVIOUS
  <2> QED BY <2>1 DEF Charges
<1>4. ASSUME NEW a PROVE a \in Charges' <=> \E t \in Tasks : \E n \in 1..spent'[t] : a = <<t, n>>
  <2>1. ASSUME NEW t \in Tasks PROVE a \in {t} \X (1..spent'[t]) <=> \E n \in 1..spent'[t] : a = <<t, n>>
    OBVIOUS
  <2> QED BY <2>1 DEF Charges
<1>5. 1..spent'[task] = 1..spent[task] \cup {spent[task] + 1} /\ spent[task] + 1 \notin 1..spent[task]
  BY <1>1, <1>2
<1>6. \A t \in Tasks : t # task => 1..spent'[t] = 1..spent[t]
  BY <1>2
<1>7. new \notin old
  BY <1>3, <1>5
<1>8. ASSUME NEW a PROVE a \in Charges' <=> a \in old \cup {new}
  <2>1. a \in Charges' <=> \/ \E t \in Tasks \ {task} : \E n \in 1..spent[t] : a = <<t, n>>
                           \/ \E n \in 1..spent'[task] : a = <<task, n>>
    BY <1>1, <1>4, <1>6
  <2>2. a \in Charges <=> \/ \E t \in Tasks \ {task} : \E n \in 1..spent[t] : a = <<t, n>>
                          \/ \E n \in 1..spent[task] : a = <<task, n>>
    BY <1>1, <1>3
  <2>3. (\E n \in 1..spent'[task] : a = <<task, n>>)
           <=> (\E n \in 1..spent[task] : a = <<task, n>>) \/ a = new
    BY <1>5
  <2> QED BY <2>1, <2>2, <2>3
<1>9. IsFiniteSet(old)
  BY DEF CountsOK
<1>10. Charges' = old \cup {new}
  <2> HIDE DEF new, old
  <2> QED BY <1>8
<1> HIDE DEF new, old
<1>11. IsFiniteSet(old \cup {new}) /\ Cardinality(old \cup {new}) = Cardinality(old) + 1
  BY <1>7, <1>9, FS_AddElement
<1> QED BY <1>2, <1>10, <1>11 DEF old

LEMMA BudgetFacts ==
  ASSUME Core, CountsOK
  PROVE  /\ MaxTaskAttempts \in Nat /\ spent \in [Tasks -> Nat]
         /\ \A t \in Tasks : spent[t] \in Nat /\ FailedAttempts(t) \in Nat
BY BudgetAssumption, FailedIsCount DEF Core, TypeOK

\* No attempt is closed as failed.
LEMMA NothingFails ==
  ASSUME Core, CountsOK,
         \A s \in DOMAIN steps : /\ s \in DOMAIN steps' /\ steps'[s].task = steps[s].task
                                 /\ steps'[s].failed = steps[s].failed,
         \A s \in DOMAIN steps' \ DOMAIN steps : steps'[s].failed = 0
  PROVE  \A t \in Tasks : FailedAttempts(t)' = FailedAttempts(t) /\ IsFiniteSet(Fails(t)')
<1>1. \A t \in Tasks : Fails(t)' = Fails(t)
  BY FailsSame
<1> QED BY <1>1, FailedSame

\* What a step that is no repair does to the counts.
LEMMA NoCharge ==
  ASSUME CountsOK, spent' = spent, \A t \in Tasks : IsFiniteSet(Fails(t)')
  PROVE  Charges' = Charges /\ CountsOK'
BY DEF Charges, CountsOK

LEMMA BudgetSame ==
  ASSUME Core, CountsOK, BudgetOK, spent' = spent, phase' # "REPAIRING",
         phase = "REPAIRING" => phase' \in Ended, phase \in Ended => phase' \in Ended,
         \A s \in DOMAIN steps : /\ s \in DOMAIN steps' /\ steps'[s].task = steps[s].task
                                 /\ steps'[s].failed = steps[s].failed,
         \A s \in DOMAIN steps' \ DOMAIN steps : steps'[s].failed = 0
  PROVE  CountsOK' /\ BudgetOK'
<1>1. \A t \in Tasks : FailedAttempts(t)' = FailedAttempts(t) /\ IsFiniteSet(Fails(t)')
  BY NothingFails
<1>2. CountsOK'
  BY <1>1, NoCharge
<1>3. ASSUME NEW t \in Tasks
      PROVE  /\ IF phase' \in Ended THEN spent'[t] <= MaxTaskAttempts ELSE spent'[t] < MaxTaskAttempts
             /\ FailedAttempts(t)' <= IF phase' \in Ended THEN MaxTaskAttempts ELSE spent'[t]
  <2>1. Due(t) \in {0, 1} /\ (phase # "REPAIRING" => Due(t) = 0)
    BY DEF Due
  <2> HIDE DEF Due
  <2>2. /\ IF phase \in Ended THEN spent[t] <= MaxTaskAttempts ELSE spent[t] < MaxTaskAttempts
        /\ FailedAttempts(t) <= IF phase \in Ended THEN MaxTaskAttempts ELSE spent[t] + Due(t)
    BY DEF BudgetOK
  <2>3. FailedAttempts(t)' = FailedAttempts(t) /\ FailedAttempts(t) \in Nat /\ spent[t] \in Nat
        /\ MaxTaskAttempts \in Nat
    BY <1>1, BudgetFacts
  <2> QED BY <2>1, <2>2, <2>3
<1>4. \A t \in Tasks : Due(t)' = 0
  BY DEF Due
<1>5. BudgetOK'
  <2>1. \A t \in Tasks : spent'[t] + Due(t)' = spent'[t]
    BY <1>4, BudgetFacts
  <2> QED BY <1>3, <2>1 DEF BudgetOK
<1> QED BY <1>2, <1>5

\* A repair that goes on has room for another one.
LEMMA BudgetRepaired ==
  ASSUME Core, CountsOK, BudgetOK, Repaired, phase' # "REPAIRING",
         phase' \notin Ended => Strategy # "GIVE_UP",
         \A s \in DOMAIN steps : /\ s \in DOMAIN steps' /\ steps'[s].task = steps[s].task
                                 /\ steps'[s].failed = steps[s].failed,
         \A s \in DOMAIN steps' \ DOMAIN steps : steps'[s].failed = 0
  PROVE  CountsOK' /\ BudgetOK'
<1>1. \A t \in Tasks : FailedAttempts(t)' = FailedAttempts(t) /\ IsFiniteSet(Fails(t)')
  BY NothingFails
<1>2. /\ \A t \in Tasks : spent'[t] = IF t = task THEN spent[t] + 1 ELSE spent[t]
      /\ IsFiniteSet(Charges')
  BY ChargedOne
<1>3. CountsOK'
  BY <1>1, <1>2 DEF CountsOK
<1>4. phase = "REPAIRING" /\ phase \notin Ended /\ task \in Tasks
  BY AtWork DEF Repaired, Ended, Working
<1>5. phase' \notin Ended => spent[task] + 1 < MaxTaskAttempts
  BY <1>4, BudgetFacts, StrategyFacts
<1>6. ASSUME NEW t \in Tasks
      PROVE  /\ IF phase' \in Ended THEN spent'[t] <= MaxTaskAttempts ELSE spent'[t] < MaxTaskAttempts
             /\ FailedAttempts(t)' <= IF phase' \in Ended THEN MaxTaskAttempts ELSE spent'[t]
  <2>1. Due(t) \in {0, 1} /\ (t # task => Due(t) = 0)
    BY DEF Due
  <2> HIDE DEF Due
  <2>2. spent[t] < MaxTaskAttempts /\ FailedAttempts(t) <= spent[t] + Due(t)
    BY <1>4 DEF BudgetOK
  <2>3. FailedAttempts(t)' = FailedAttempts(t) /\ FailedAttempts(t) \in Nat /\ spent[t] \in Nat
        /\ MaxTaskAttempts \in Nat
    BY <1>1, BudgetFacts
  <2>4. CASE t = task
    <3>1. spent'[t] = spent[t] + 1 /\ FailedAttempts(t) <= spent[t] + 1
          /\ (phase' \notin Ended => spent[t] + 1 < MaxTaskAttempts)
      BY <1>2, <1>5, <2>1, <2>2, <2>3, <2>4
    <3> QED BY <2>2, <2>3, <3>1
  <2>5. CASE t # task
    <3>1. spent'[t] = spent[t] /\ FailedAttempts(t) <= spent[t]
      BY <1>2, <2>1, <2>2, <2>3, <2>5
    <3> QED BY <2>2, <2>3, <3>1
  <2> QED BY <2>4, <2>5
<1>7. \A t \in Tasks : Due(t)' = 0
  BY DEF Due
<1>8. BudgetOK'
  <2>1. \A t \in Tasks : spent'[t] + Due(t)' = spent'[t]
    BY <1>2, <1>7, BudgetFacts
  <2> QED BY <1>6, <2>1 DEF BudgetOK
<1> QED BY <1>3, <1>8

LEMMA BudgetKept ==
  ASSUME Core, CountsOK, BudgetOK, [Next]_vars
  PROVE  CountsOK' /\ BudgetOK'
<1>1. CASE Plan
  <2>1. /\ spent' = spent /\ phase = "PLANNING" /\ phase' = "READY"
        /\ \A s \in DOMAIN steps' : steps'[s].failed = 0
    BY <1>1, PlanRows DEF Plan
  <2>2. DOMAIN steps = {}
    BY <2>1 DEF Core, RunOK
  <2> QED BY <2>1, <2>2, BudgetSame DEF Ended
<1>2. CASE Start
  <2>1. /\ spent' = spent /\ phase = "READY" /\ phase' = "EXECUTING" /\ OnlyRow(step')
        /\ steps'[step'] = [steps[step'] EXCEPT !.status = "IN_PROGRESS"]
        /\ step' \in DOMAIN steps /\ steps[step'] \in StepRows
    BY <1>2, StartRows, StepFacts DEF Start, Core
  <2>2. \A s \in DOMAIN steps : steps'[s].failed = steps[s].failed
    BY <2>1 DEF OnlyRow, StepRows
  <2> QED BY <2>1, <2>2, BudgetSame DEF Ended, OnlyRow
<1>3. CASE Settle
  BY <1>3, BudgetSame DEF Settle, Settled, Enter, Ended
<1>4. CASE DependencyBlocked
  <2>1. /\ spent' = spent /\ phase = "EXECUTING" /\ phase' = "FAILED" /\ OnlyRow(step)
        /\ steps'[step] = [steps[step] EXCEPT !.status = "BLOCKED"]
    BY <1>4, BlockedRows DEF DependencyBlocked
  <2>2. step \in DOMAIN steps /\ steps[step] \in StepRows
    BY <2>1, AtWork DEF Working
  <2>3. \A s \in DOMAIN steps : steps'[s].failed = steps[s].failed
    BY <2>1, <2>2 DEF OnlyRow, StepRows
  <2> QED BY <2>1, <2>3, BudgetSame DEF Ended, OnlyRow
<1>5. CASE Execute
  BY <1>5, BudgetSame DEF Execute, rows, Enter, Ended
<1>6. CASE StepRejected
  <2>1. /\ spent' = spent /\ phase = "VERIFYING" /\ phase' = "REPAIRING" /\ OnlyRow(step)
        /\ Working /\ task' = task /\ step' = step
        /\ steps'[step].failed = steps[step].failed + 1
        /\ steps'[step].status # "DONE"
    BY <1>6, RejectedRows DEF StepRejected, Working
  <2>2. /\ \A t \in Tasks : IsFiniteSet(Fails(t)')
        /\ \A t \in Tasks : FailedAttempts(t)' <= IF t = task THEN FailedAttempts(t) + 1
                                                  ELSE FailedAttempts(t)
    BY <2>1, FailedOne
  <2>3. CountsOK'
    BY <2>1, <2>2, NoCharge
  <2>4. ASSUME NEW t \in Tasks
        PROVE  spent'[t] < MaxTaskAttempts /\ FailedAttempts(t)' <= spent'[t] + Due(t)'
    <3>1. Due(t)' = (IF t = task THEN 1 ELSE 0) /\ Due(t) = 0
      BY <2>1 DEF Due
    <3>2. spent[t] < MaxTaskAttempts /\ FailedAttempts(t) <= spent[t] + Due(t)
      BY <2>1 DEF BudgetOK, Ended
    <3>3. FailedAttempts(t)' \in Nat /\ FailedAttempts(t) \in Nat /\ spent[t] \in Nat
      <4>1. FailedAttempts(t)' = Cardinality(Fails(t)')
        BY DEF FailedAttempts, Fails
      <4> QED BY <4>1, <2>2, FS_CardinalityType, BudgetFacts
    <3>4. FailedAttempts(t) <= spent[t]
      BY <3>1, <3>2, <3>3
    <3> QED BY <2>1, <2>2, <3>1, <3>2, <3>3, <3>4
  <2>5. BudgetOK'
    BY <2>1, <2>4 DEF BudgetOK, Ended
  <2> QED BY <2>3, <2>5
<1>7. CASE NextStep
  BY <1>7, BudgetSame, NextStepRows DEF NextStep, Ended
<1>8. CASE VerifyTask
  <2>1. /\ spent' = spent /\ phase = "VERIFYING" /\ phase' \in {"READY", "REPAIRING"}
        /\ OnlyRow(step) /\ steps'[step].failed = steps[step].failed
        /\ steps'[step].status = "DONE" /\ (phase' = "REPAIRING" => step' = step)
    BY <1>8, TaskRows DEF VerifyTask, LastStepPassed
  <2>2. \A s \in DOMAIN steps : steps'[s].failed = steps[s].failed
    BY <2>1 DEF OnlyRow
  <2>3. \A t \in Tasks : FailedAttempts(t)' = FailedAttempts(t) /\ IsFiniteSet(Fails(t)')
    BY <2>1, <2>2, NothingFails DEF OnlyRow
  <2>4. CountsOK'
    BY <2>1, <2>3, NoCharge
  <2>5. ASSUME NEW t \in Tasks
        PROVE  spent'[t] < MaxTaskAttempts /\ FailedAttempts(t)' <= spent'[t] + Due(t)'
    <3>1. Due(t)' = 0 /\ Due(t) = 0
      BY <2>1 DEF Due
    <3> QED BY <2>1, <2>3, <3>1 DEF BudgetOK, Ended
  <2>6. BudgetOK'
    BY <2>1, <2>5 DEF BudgetOK, Ended
  <2> QED BY <2>4, <2>6
<1>9. CASE VerifyRaises
  <2>1. /\ spent' = spent /\ phase = "VERIFYING" /\ phase' = "RAISED"
        /\ OnlyRow(step) /\ steps'[step].failed = steps[step].failed
    BY <1>9, RaisedRows DEF VerifyRaises, LastStepPassed
  <2>2. \A s \in DOMAIN steps : steps'[s].failed = steps[s].failed
    BY <2>1 DEF OnlyRow
  <2> QED BY <2>1, <2>2, BudgetSame DEF Ended, OnlyRow
<1>10. CASE GiveUp
  <2>1. /\ Repaired /\ phase' \in Ended /\ OnlyRow(step)
        /\ steps'[step].failed = steps[step].failed
    BY <1>10, GiveUpRows
  <2>2. \A s \in DOMAIN steps : steps'[s].failed = steps[s].failed
    BY <2>1 DEF OnlyRow
  <2> QED BY <2>1, <2>2, BudgetRepaired DEF Ended, OnlyRow
<1>11. CASE Retry
  <2>1. /\ Repaired /\ phase' = "EXECUTING" /\ Strategy # "GIVE_UP" /\ OnlyRow(step)
        /\ steps'[step].failed = steps[step].failed
    BY <1>11, RetryRows
  <2>2. \A s \in DOMAIN steps : steps'[s].failed = steps[s].failed
    BY <2>1 DEF OnlyRow
  <2> QED BY <2>1, <2>2, BudgetRepaired DEF Ended, OnlyRow
<1>12. CASE ReplanTask
  <2>1. /\ Repaired /\ phase' = "EXECUTING" /\ Strategy = "REPLAN_TASK"
        /\ \A s \in DOMAIN steps : /\ s \in DOMAIN steps' /\ steps'[s].task = steps[s].task
                                   /\ steps'[s].failed = steps[s].failed
        /\ \A s \in DOMAIN steps' \ DOMAIN steps : steps'[s].failed = 0
    BY <1>12, ReplanRows
  <2> QED BY <2>1, BudgetRepaired DEF Ended
<1>13. CASE Raise
  <2>1. /\ spent' = spent /\ phase' = "RAISED" /\ phase \notin Ended
    BY <1>13, RaiseRows DEF Raise
  <2>2. CASE phase # "VERIFYING"
    BY <1>13, <2>1, <2>2, RaiseRows, BudgetSame DEF Ended
  <2>3. CASE phase = "VERIFYING" /\ steps'[step].failed = steps[step].failed + 1
    <3>1. /\ OnlyRow(step) /\ steps'[step].failed = steps[step].failed + 1 /\ Working
      BY <1>13, <2>3, RaiseRows DEF Working
    <3>2. /\ \A t \in Tasks : IsFiniteSet(Fails(t)')
          /\ \A t \in Tasks : FailedAttempts(t)' <= IF t = task THEN FailedAttempts(t) + 1
                                                    ELSE FailedAttempts(t)
      BY <3>1, FailedOne
    <3>3. CountsOK'
      BY <2>1, <3>2, NoCharge
    <3>4. ASSUME NEW t \in Tasks
          PROVE  spent'[t] <= MaxTaskAttempts /\ FailedAttempts(t)' <= MaxTaskAttempts
      <4>1. Due(t) = 0
        BY <2>3 DEF Due
      <4>2. spent[t] < MaxTaskAttempts /\ FailedAttempts(t) <= spent[t] + Due(t)
        BY <2>1 DEF BudgetOK
      <4>3. FailedAttempts(t)' \in Nat /\ FailedAttempts(t) \in Nat /\ spent[t] \in Nat
            /\ MaxTaskAttempts \in Nat
        <5>1. FailedAttempts(t)' = Cardinality(Fails(t)')
          BY DEF FailedAttempts, Fails
        <5> QED BY <5>1, <3>2, FS_CardinalityType, BudgetFacts
      <4>4. FailedAttempts(t)' <= FailedAttempts(t) + 1
        BY <3>2, <4>3
      <4> QED BY <2>1, <4>1, <4>2, <4>3, <4>4
    <3>5. BudgetOK'
      BY <2>1, <3>4 DEF BudgetOK, Ended
    <3> QED BY <3>3, <3>5
  <2>4. CASE phase = "VERIFYING" /\ steps'[step].failed = steps[step].failed
    <3>1. OnlyRow(step)
      BY <1>13, <2>4, RaiseRows
    <3>2. \A s \in DOMAIN steps : steps'[s].failed = steps[s].failed
      BY <2>4, <3>1 DEF OnlyRow
    <3> QED BY <2>1, <3>1, <3>2, BudgetSame DEF Ended, OnlyRow
  <2> QED BY <1>13, <2>2, <2>3, <2>4, RaiseRows
<1>14. CASE Over \/ UNCHANGED vars
  <2>1. UNCHANGED <<steps, spent, phase, task, step>>
    BY <1>14 DEF Over, vars, rows, memory
  <2>2. \A t \in Tasks : FailedAttempts(t)' = FailedAttempts(t) /\ IsFiniteSet(Fails(t)')
    BY <2>1, NothingFails
  <2>3. CountsOK'
    BY <2>1, <2>2, NoCharge
  <2>4. \A t \in Tasks : Due(t)' = Due(t)
    BY <2>1 DEF Due
  <2>5. BudgetOK'
    BY <2>1, <2>2, <2>4 DEF BudgetOK
  <2> QED BY <2>3, <2>5
<1> QED BY <1>1, <1>2, <1>3, <1>4, <1>5, <1>6, <1>7, <1>8, <1>9, <1>10, <1>11, <1>12, <1>13, <1>14
     DEF Next, Controller


(***************************************************************************)
(* Iterations                                                              *)
(***************************************************************************)
\* The numbers up to n are n.
LEMMA UpTo ==
  ASSUME NEW n \in Nat
  PROVE  IsFiniteSet(1..n) /\ Cardinality(1..n) = n
<1>1. IsFiniteSet(1..n)
  BY FS_Interval
<1>2. Cardinality(1..n) = IF 1 > n THEN 0 ELSE n - 1 + 1
  BY FS_Interval
<1> QED BY <1>1, <1>2

\* What the iterations are counted against is finite, and no more than the plan holds.
LEMMA CountFacts ==
  ASSUME Core, CountsOK
  PROVE  /\ Cardinality(Tasks) \in Nat /\ Cardinality(Charges) \in Nat
         /\ IsFiniteSet(Started) /\ Cardinality(Started) \in Nat
         /\ Cardinality(Started) <= Cardinality(Tasks)
         /\ IsFiniteSet(DoneSteps) /\ Cardinality(DoneSteps) \in Nat
         /\ Cardinality(DoneSteps) <= Len(steps) /\ Len(steps) \in Nat
         /\ iterations \in Nat
<1>1. IsFiniteSet(Tasks) /\ Started \in SUBSET Tasks
  BY DraftAssumption DEF Started
<1>2. IsFiniteSet(1..Len(steps)) /\ Cardinality(1..Len(steps)) = Len(steps) /\ Len(steps) \in Nat
  <2>1. Len(steps) \in Nat
    BY StepFacts DEF Core
  <2> QED BY <2>1, UpTo
<1>3. DoneSteps \in SUBSET (1..Len(steps))
  BY StepFacts DEF Core, DoneSteps
<1>4. IsFiniteSet(Started) /\ Cardinality(Started) <= Cardinality(Tasks)
  BY <1>1, FS_Subset
<1>5. IsFiniteSet(DoneSteps) /\ Cardinality(DoneSteps) <= Len(steps)
  BY <1>2, <1>3, FS_Subset
<1>6. Cardinality(Charges) \in Nat
  BY FS_CardinalityType DEF CountsOK
<1> QED BY <1>1, <1>2, <1>4, <1>5, <1>6, FS_CardinalityType DEF Core, TypeOK

\* While a step is open, not every step is DONE.
LEMMA OpenStepCounts ==
  ASSUME Core, CountsOK, NEW s \in DOMAIN steps, steps[s].status # "DONE"
  PROVE  Cardinality(DoneSteps) + 1 <= Len(steps)
<1> DEFINE all == 1..Len(steps)
<1>1. Len(steps) \in Nat /\ s \in all /\ DoneSteps \in SUBSET all /\ s \notin DoneSteps
  BY StepFacts DEF Core, DoneSteps
<1>2. IsFiniteSet(all) /\ Cardinality(all) = Len(steps)
  BY <1>1, UpTo
<1>3. Cardinality(DoneSteps) <= Cardinality(all) /\ Cardinality(DoneSteps) # Cardinality(all)
  BY <1>1, <1>2, FS_Subset
<1>4. Cardinality(DoneSteps) \in Nat
  BY CountFacts
<1> QED BY <1>1, <1>2, <1>3, <1>4

\* An iteration that is paid for: with s, d, c and a of the loop before it.
LEMMA Paid ==
  ASSUME Core, CountsOK, IterationsOK, phase \notin Ended, phase' \notin Ended,
         iterations' = iterations + 1,
         Cardinality(Started') \in Nat, Cardinality(DoneSteps') \in Nat,
         Cardinality(Charges') \in Nat,
         NEW new \in Int, new = Cardinality(Started') - Cardinality(Started),
         NEW done \in Int, done = Cardinality(DoneSteps') - Cardinality(DoneSteps),
         NEW charged \in Int, charged = Cardinality(Charges') - Cardinality(Charges),
         new + 2 * done + 3 * charged + Ahead' >= Ahead + 1
  PROVE  IterationsOK'
<1> DEFINE s == Cardinality(Started)
           d == Cardinality(DoneSteps)
           c == Cardinality(Charges)
           a == Ahead
           ss == Cardinality(Started')
           dd == Cardinality(DoneSteps')
           cc == Cardinality(Charges')
           aa == Ahead'
<1>1. a \in Nat /\ aa \in Nat
  BY DEF Ahead
<1>2. iterations <= s + 2 * d + 3 * c + a
  BY DEF IterationsOK
<1>3. s \in Nat /\ d \in Nat /\ c \in Nat /\ ss \in Nat /\ dd \in Nat /\ cc \in Nat
      /\ iterations \in Nat
  BY CountFacts
<1>4. new = ss - s /\ done = dd - d /\ charged = cc - c /\ new + 2 * done + 3 * charged + aa >= a + 1
  OBVIOUS
<1>5. IterationsOK' <=> iterations' <= ss + 2 * dd + 3 * cc + aa
  BY DEF IterationsOK
<1> HIDE DEF s, d, c, a, ss, dd, cc, aa
<1>6. iterations + 1 <= ss + 2 * dd + 3 * cc + aa
  BY <1>1, <1>2, <1>3, <1>4
<1> QED BY <1>5, <1>6

\* The last iteration of a run.
LEMMA LastPaid ==
  ASSUME Core, CountsOK, IterationsOK, phase \notin Ended, phase' \in Ended,
         iterations' = iterations + 1, Len(steps') = Len(steps),
         Cardinality(Charges') \in Nat,
         NEW charged \in Nat, charged = Cardinality(Charges') - Cardinality(Charges),
         \/ 3 * charged >= Ahead - 2
         \/ \E s \in DOMAIN steps : steps[s].status # "DONE"
  PROVE  IterationsOK'
<1> DEFINE s == Cardinality(Started)
           d == Cardinality(DoneSteps)
           c == Cardinality(Charges)
           a == Ahead
           t == Cardinality(Tasks)
           cc == Cardinality(Charges')
           n == Len(steps)
<1>1. a \in Nat /\ a <= 3
  BY DEF Ahead
<1>2. iterations <= s + 2 * d + 3 * c + a
  BY DEF IterationsOK
<1>3. s \in Nat /\ d \in Nat /\ c \in Nat /\ t \in Nat /\ cc \in Nat /\ n \in Nat
      /\ s <= t /\ d <= n /\ iterations \in Nat
  BY CountFacts
<1>4. 3 * charged >= a - 2 \/ d + 1 <= n
  BY OpenStepCounts
<1>5. IterationsOK' <=> iterations' <= 3 + t + 3 * cc + 2 * n
  BY DEF IterationsOK, LoopIsBounded
<1>6. charged = cc - c
  OBVIOUS
<1> HIDE DEF s, d, c, a, t, cc, n
<1>7. iterations + 1 <= 3 + t + 3 * cc + 2 * n
  BY <1>1, <1>2, <1>3, <1>4, <1>6
<1> QED BY <1>5, <1>7

\* The bound of the whole run holds all the time.
LEMMA BoundHolds ==
  ASSUME Core, CountsOK, IterationsOK
  PROVE  LoopIsBounded
<1>1. CASE phase \in Ended
  BY <1>1 DEF IterationsOK
<1>2. CASE phase \notin Ended
  <2>1. iterations <= Cardinality(Started) + 2 * Cardinality(DoneSteps)
                      + 3 * Cardinality(Charges) + Ahead
    BY <1>2 DEF IterationsOK
  <2>2. Ahead \in {0, 1, 2, 3}
    BY DEF Ahead
  <2> HIDE DEF Ahead
  <2> QED BY <2>1, <2>2, CountFacts DEF LoopIsBounded
<1> QED BY <1>1, <1>2

\* A status that a task at work gets leaves it started.
LEMMA StartedSame ==
  ASSUME Core, \/ status' = status
               \/ /\ Working
                  /\ \E new \in {"IN_PROGRESS", "BLOCKED", "DONE", "FAILED"} :
                       status' = [status EXCEPT ![task] = new]
  PROVE  Started' = Started
<1>1. CASE status' = status
  BY <1>1 DEF Started
<1>2. CASE status' # status
  <2>1. /\ task \in Tasks /\ status[task] \notin {"PENDING", "READY"}
        /\ status \in [Tasks -> TaskStatuses]
    BY <1>2, AtWork, CoreTypes DEF RowsTyped
  <2>2. \A t \in Tasks : status'[t] \in {"PENDING", "READY"} <=> status[t] \in {"PENDING", "READY"}
    BY <1>2, <2>1
  <2> QED BY <2>2 DEF Started
<1> QED BY <1>1, <1>2

\* One more element is one more in the count.
LEMMA OneMore ==
  ASSUME NEW S, IsFiniteSet(S), NEW x, x \notin S, NEW T, T = S \cup {x}
  PROVE  Cardinality(T) \in Nat /\ Cardinality(T) - Cardinality(S) = 1
<1>1. IsFiniteSet(S \cup {x}) /\ Cardinality(S \cup {x}) = Cardinality(S) + 1
  BY FS_AddElement
<1> QED BY <1>1, FS_CardinalityType

LEMMA OneLess ==
  ASSUME NEW S, IsFiniteSet(S), NEW x \in S, NEW T, T = S \ {x}
  PROVE  Cardinality(T) \in Nat /\ Cardinality(T) - Cardinality(S) = -1
<1>1. IsFiniteSet(S \ {x}) /\ Cardinality(S \ {x}) = Cardinality(S) - 1
  BY FS_RemoveElement
<1> QED BY <1>1, FS_CardinalityType

LEMMA SamePaid ==
  ASSUME Core, CountsOK, IterationsOK, phase \notin Ended, phase' \notin Ended,
         iterations' = iterations + 1, Started' = Started, DoneSteps' = DoneSteps,
         Charges' = Charges, Ahead' >= Ahead + 1
  PROVE  IterationsOK'
<1>1. /\ Cardinality(Started) \in Nat /\ Cardinality(DoneSteps) \in Nat
      /\ Cardinality(Charges) \in Nat
  BY CountFacts
<1>2. /\ 0 = Cardinality(Started') - Cardinality(Started)
      /\ 0 = Cardinality(DoneSteps') - Cardinality(DoneSteps)
      /\ 0 = Cardinality(Charges') - Cardinality(Charges)
  BY <1>1
<1>3. 0 + 2 * 0 + 3 * 0 + Ahead' >= Ahead + 1
  <2> DEFINE a == Ahead
             aa == Ahead'
  <2>1. a \in Nat /\ aa \in Nat /\ aa >= a + 1
    BY DEF Ahead
  <2> HIDE DEF a, aa
  <2>2. 0 + 2 * 0 + 3 * 0 + aa >= a + 1
    BY <2>1
  <2> QED BY <2>2 DEF a, aa
<1> QED BY <1>1, <1>2, <1>3, Paid

\* An iteration that ended with one more DONE step.
LEMMA DonePaid ==
  ASSUME Core, CountsOK, IterationsOK, phase = "VERIFYING", phase' \notin Ended,
         iterations' = iterations + 1, Started' = Started, Charges' = Charges,
         step \notin DoneSteps, DoneSteps' = DoneSteps \cup {step}, Ahead' >= 1
  PROVE  IterationsOK'
<1>1. /\ Cardinality(Started) \in Nat /\ Cardinality(Charges) \in Nat /\ IsFiniteSet(DoneSteps)
  BY CountFacts
<1>2. Cardinality(DoneSteps') \in Nat /\ 1 = Cardinality(DoneSteps') - Cardinality(DoneSteps)
  BY <1>1, OneMore
<1>3. /\ 0 = Cardinality(Started') - Cardinality(Started) /\ Cardinality(Started') \in Nat
      /\ 0 = Cardinality(Charges') - Cardinality(Charges) /\ Cardinality(Charges') \in Nat
  BY <1>1
<1>4. 0 + 2 * 1 + 3 * 0 + Ahead' >= Ahead + 1
  <2> DEFINE aa == Ahead'
  <2>1. aa \in Nat /\ aa >= 1
    BY DEF Ahead
  <2> HIDE DEF aa
  <2>2. 0 + 2 * 1 + 3 * 0 + aa >= 2 + 1
    BY <2>1
  <2>3. Ahead = 2
    BY DEF Ahead
  <2> QED BY <2>2, <2>3 DEF aa
<1>5. phase \notin Ended
  BY DEF Ended
<1>6. 0 \in Int /\ 1 \in Int
  OBVIOUS
<1> QED BY <1>2, <1>3, <1>4, <1>5, <1>6, Paid, Zenon

\* A repair that goes on.
LEMMA RepairPaid ==
  ASSUME Core, CountsOK, IterationsOK, Repaired, phase' = "EXECUTING", Started' = Started,
         DoneSteps' = DoneSteps \/ (steps[step].status = "DONE" /\ DoneSteps' = DoneSteps \ {step})
  PROVE  IterationsOK'
<1>1. /\ Cardinality(Started) \in Nat /\ Cardinality(Charges) \in Nat /\ IsFiniteSet(DoneSteps)
      /\ Cardinality(DoneSteps) \in Nat
  BY CountFacts
<1>2. Cardinality(Charges') \in Nat /\ 1 = Cardinality(Charges') - Cardinality(Charges)
  <2>1. IsFiniteSet(Charges') /\ Cardinality(Charges') = Cardinality(Charges) + 1
    BY ChargedOne
  <2> QED BY <1>1, <2>1
<1>3. 0 = Cardinality(Started') - Cardinality(Started) /\ Cardinality(Started') \in Nat
  BY <1>1
<1>4. phase = "REPAIRING" /\ phase \notin Ended /\ phase' \notin Ended /\ iterations' = iterations + 1
  BY DEF Repaired, Ended
<1>5. Ahead' = 1 /\ Ahead \in {1, 3} /\ (steps[step].status = "DONE" => Ahead = 1)
  BY <1>4 DEF Ahead
<1>6. CASE DoneSteps' = DoneSteps
  <2>1. 0 = Cardinality(DoneSteps') - Cardinality(DoneSteps) /\ Cardinality(DoneSteps') \in Nat
    BY <1>1, <1>6
  <2>2. 0 + 2 * 0 + 3 * 1 + Ahead' >= Ahead + 1
    BY <1>5
  <2> QED BY <1>2, <1>3, <1>4, <2>1, <2>2, Paid
<1>7. CASE steps[step].status = "DONE" /\ DoneSteps' = DoneSteps \ {step}
  <2>1. step \in DoneSteps
    BY <1>4, <1>7, AtWork DEF DoneSteps, Working
  <2>2. -1 = Cardinality(DoneSteps') - Cardinality(DoneSteps) /\ Cardinality(DoneSteps') \in Nat
    BY <1>1, <1>7, <2>1, OneLess
  <2>3. 0 + 2 * (-1) + 3 * 1 + Ahead' >= Ahead + 1
    BY <1>5, <1>7
  <2>4. -1 \in Int
    OBVIOUS
  <2> QED BY <1>2, <1>3, <1>4, <2>2, <2>3, <2>4, Paid
<1> QED BY <1>6, <1>7

\* The end of a run that was charged nothing.
LEMMA EndPaid ==
  ASSUME Core, CountsOK, IterationsOK, phase \notin Ended, phase' \in Ended,
         iterations' = iterations + 1, Len(steps') = Len(steps), spent' = spent
  PROVE  IterationsOK'
<1>1. Charges' = Charges /\ Cardinality(Charges) \in Nat
  BY CountFacts DEF Charges
<1>2. Cardinality(Charges') \in Nat /\ 0 = Cardinality(Charges') - Cardinality(Charges)
  BY <1>1
<1>3. CASE phase = "REPAIRING" /\ steps[step].status # "DONE"
  <2>1. step \in DOMAIN steps
    BY <1>3, AtWork DEF Working
  <2> QED BY <1>2, <1>3, <2>1, LastPaid
<1>4. CASE ~(phase = "REPAIRING" /\ steps[step].status # "DONE")
  <2>1. Ahead \in Nat /\ Ahead <= 2
    BY <1>4 DEF Ahead
  <2>2. 3 * 0 >= Ahead - 2
    BY <2>1
  <2> QED BY <1>2, <2>2, LastPaid
<1> QED BY <1>3, <1>4

LEMMA IterationsKept ==
  ASSUME Core, CountsOK, IterationsOK, [Next]_vars
  PROVE  IterationsOK'
<1>0. spent' = spent => Charges' = Charges
  BY DEF Charges
<1>1. CASE Plan
  <2>1. /\ spent' = spent /\ status' = status /\ phase = "PLANNING" /\ phase' = "READY"
        /\ iterations' = iterations + 1
        /\ \A s \in DOMAIN steps' : steps'[s].status = "PENDING"
    BY <1>1, PlanRows DEF Plan
  <2>2. DOMAIN steps = {}
    BY <2>1 DEF Core, RunOK
  <2>3. DoneSteps' = DoneSteps
    BY <2>1, <2>2 DEF DoneSteps
  <2>4. Started' = Started
    BY <2>1, StartedSame
  <2>5. Ahead' = 1 /\ Ahead = 0
    BY <2>1 DEF Ahead
  <2>6. Ahead' >= Ahead + 1
    BY <2>5
  <2> QED BY <1>0, <2>1, <2>3, <2>4, <2>6, SamePaid DEF Ended
<1>2. CASE Start
  <2>1. /\ spent' = spent /\ phase = "READY" /\ phase' = "EXECUTING" /\ iterations' = iterations + 1
        /\ task' \in Tasks /\ status[task'] \in {"PENDING", "READY"}
        /\ status' \in [Tasks -> {"PENDING", "READY", "DONE", "IN_PROGRESS"}]
        /\ \A t \in Tasks : /\ status'[t] = "IN_PROGRESS" <=> t = task'
                            /\ status'[t] = "DONE" <=> status[t] = "DONE"
        /\ OnlyRow(step') /\ steps'[step'] = [steps[step'] EXCEPT !.status = "IN_PROGRESS"]
        /\ step' \in DOMAIN steps /\ steps[step'] \in StepRows /\ steps[step'].status = "PENDING"
    BY <1>2, StartRows, StepFacts DEF Start, Core
  <2>2. \A t \in Tasks : status[t] \in {"PENDING", "READY", "DONE"}
    BY <2>1 DEF Core, RestOK, Working, Ended
  <2>3. task' \notin Started /\ Started' = Started \cup {task'}
    BY <2>1, <2>2 DEF Started
  <2>4. steps'[step'].status = "IN_PROGRESS"
    BY <2>1 DEF StepRows
  <2>5. DoneSteps' = DoneSteps
    <3>1. \A s \in DOMAIN steps : steps'[s].status = "DONE" <=> steps[s].status = "DONE"
      BY <2>1, <2>4 DEF OnlyRow
    <3> QED BY <2>1, <3>1 DEF DoneSteps, OnlyRow
  <2>6. /\ IsFiniteSet(Started) /\ Cardinality(DoneSteps) \in Nat /\ Cardinality(Charges) \in Nat
    BY CountFacts
  <2>7. 1 = Cardinality(Started') - Cardinality(Started) /\ Cardinality(Started') \in Nat
    BY <2>3, <2>6, OneMore
  <2>8. /\ 0 = Cardinality(DoneSteps') - Cardinality(DoneSteps) /\ Cardinality(DoneSteps') \in Nat
        /\ 0 = Cardinality(Charges') - Cardinality(Charges) /\ Cardinality(Charges') \in Nat
    BY <1>0, <2>1, <2>5, <2>6
  <2>9. Ahead' = 1 /\ Ahead = 1
    BY <2>1 DEF Ahead
  <2>10. 1 + 2 * 0 + 3 * 0 + Ahead' >= Ahead + 1
    BY <2>9
  <2> QED BY <2>1, <2>7, <2>8, <2>10, Paid DEF Ended
<1>3. CASE Settle
  BY <1>3, EndPaid DEF Settle, Settled, Enter, Loop, Ended
<1>4. CASE DependencyBlocked
  <2>1. spent' = spent /\ Len(steps') = Len(steps) /\ iterations' = iterations + 1
        /\ phase = "EXECUTING" /\ phase' = "FAILED"
    BY <1>4, BlockedRows DEF DependencyBlocked, OnlyRow
  <2> QED BY <2>1, EndPaid DEF Ended
<1>5. CASE Execute
  <2>1. /\ UNCHANGED <<spent, status, steps>> /\ phase = "EXECUTING" /\ phase' = "VERIFYING"
        /\ iterations' = iterations + 1
    BY <1>5 DEF Execute, rows, Enter, Loop
  <2>2. DoneSteps' = DoneSteps /\ Started' = Started
    BY <2>1 DEF DoneSteps, Started
  <2>3. Ahead' = 2 /\ Ahead = 1
    BY <2>1 DEF Ahead
  <2>4. Ahead' >= Ahead + 1
    BY <2>3
  <2> QED BY <1>0, <2>1, <2>2, <2>4, SamePaid DEF Ended
<1>6. CASE StepRejected
  <2>1. /\ UNCHANGED <<spent, status>> /\ phase = "VERIFYING" /\ phase' = "REPAIRING"
        /\ iterations' = iterations + 1 /\ step' = step
        /\ OnlyRow(step) /\ steps[step].status # "DONE" /\ steps'[step].status # "DONE"
    BY <1>6, RejectedRows DEF StepRejected
  <2>2. DoneSteps' = DoneSteps
    BY <2>1 DEF DoneSteps, OnlyRow
  <2>3. Started' = Started
    BY <2>1 DEF Started
  <2>4. Ahead' = 3 /\ Ahead = 2
    BY <2>1 DEF Ahead
  <2>5. Ahead' >= Ahead + 1
    BY <2>4
  <2> QED BY <1>0, <2>1, <2>2, <2>3, <2>5, SamePaid DEF Ended
<1>7. CASE NextStep
  <2>1. /\ UNCHANGED <<spent, status>> /\ phase = "VERIFYING" /\ phase' = "EXECUTING"
        /\ iterations' = iterations + 1 /\ DOMAIN steps' = DOMAIN steps
        /\ steps[step].status # "DONE" /\ steps'[step].status = "DONE"
        /\ step' \in DOMAIN steps /\ step' # step
        /\ steps[step'].status # "DONE" /\ steps'[step'].status # "DONE"
        /\ \A s \in DOMAIN steps : s \notin {step, step'} => steps'[s] = steps[s]
    BY <1>7, NextStepRows DEF NextStep
  <2>2. step \in DOMAIN steps
    BY <2>1, AtWork DEF Working
  <2>3. step \notin DoneSteps /\ DoneSteps' = DoneSteps \cup {step}
    BY <2>1, <2>2 DEF DoneSteps
  <2>4. Started' = Started
    BY <2>1 DEF Started
  <2>5. Ahead' = 1
    BY <2>1 DEF Ahead
  <2>6. Ahead' >= 1
    BY <2>5
  <2> QED BY <1>0, <2>1, <2>3, <2>4, <2>6, DonePaid DEF Ended
<1>8. CASE VerifyTask
  <2>1. /\ spent' = spent /\ phase = "VERIFYING" /\ phase' \in {"READY", "REPAIRING"}
        /\ iterations' = iterations + 1
        /\ OnlyRow(step) /\ steps'[step].status = "DONE" /\ steps[step].status # "DONE"
        /\ phase' = "REPAIRING" => step' = step
        /\ \E new \in {"IN_PROGRESS", "BLOCKED", "DONE", "FAILED"} :
             status' = [status EXCEPT ![task] = new]
    BY <1>8, TaskRows DEF VerifyTask, LastStepPassed
  <2>2. step \in DOMAIN steps /\ Working
    BY <2>1, AtWork DEF Working
  <2>3. step \notin DoneSteps /\ DoneSteps' = DoneSteps \cup {step}
    BY <2>1, <2>2 DEF DoneSteps, OnlyRow
  <2>4. Started' = Started
    BY <2>1, <2>2, StartedSame
  <2>5. Ahead' = 1
    BY <2>1 DEF Ahead
  <2>6. Ahead' >= 1
    BY <2>5
  <2> QED BY <1>0, <2>1, <2>3, <2>4, <2>6, DonePaid DEF Ended
<1>9. CASE VerifyRaises
  BY <1>9, RaisedRows, EndPaid DEF VerifyRaises, LastStepPassed, OnlyRow, Ended
<1>10. CASE GiveUp
  <2>1. Repaired /\ phase' \in Ended /\ phase \notin Ended /\ Len(steps') = Len(steps)
        /\ iterations' = iterations + 1
    BY <1>10, GiveUpRows DEF OnlyRow, Repaired, Ended
  <2>2. IsFiniteSet(Charges') /\ Cardinality(Charges') = Cardinality(Charges) + 1
        /\ Cardinality(Charges) \in Nat
    BY <2>1, ChargedOne, CountFacts
  <2>3. Cardinality(Charges') \in Nat /\ 1 = Cardinality(Charges') - Cardinality(Charges)
    BY <2>2
  <2>4. 3 * 1 >= Ahead - 2
    <3>1. Ahead \in Nat /\ Ahead <= 3
      BY DEF Ahead
    <3> HIDE DEF Ahead
    <3> QED BY <3>1
  <2> QED BY <2>1, <2>3, <2>4, LastPaid
<1>11. CASE Retry
  <2>1. /\ Repaired /\ phase' = "EXECUTING" /\ status' = status
        /\ OnlyRow(step) /\ steps'[step].status = "IN_PROGRESS"
    BY <1>11, RetryRows DEF Retry
  <2>2. step \in DOMAIN steps
    BY <2>1, AtWork DEF Repaired, Working
  <2>3. DoneSteps' = DoneSteps \/ (steps[step].status = "DONE" /\ DoneSteps' = DoneSteps \ {step})
    BY <2>1, <2>2 DEF DoneSteps, OnlyRow
  <2>4. Started' = Started
    BY <2>1 DEF Started
  <2> QED BY <2>1, <2>3, <2>4, RepairPaid
<1>12. CASE ReplanTask
  <2>1. /\ Repaired /\ phase' = "EXECUTING" /\ status' = status
        /\ \A s \in DOMAIN steps :
             /\ s \in DOMAIN steps'
             /\ steps'[s].status = IF steps[s].task = task /\ steps[s].status # "DONE"
                                   THEN "SUPERSEDED" ELSE steps[s].status
        /\ \A s \in DOMAIN steps' \ DOMAIN steps :
             steps'[s].status = IF s = step' THEN "IN_PROGRESS" ELSE "PENDING"
    BY <1>12, ReplanRows
  <2>2. \A s \in DOMAIN steps : steps'[s].status = "DONE" <=> steps[s].status = "DONE"
    BY <2>1
  <2>3. \A s \in DOMAIN steps' \ DOMAIN steps : steps'[s].status # "DONE"
    BY <2>1
  <2>4. DoneSteps' = DoneSteps
    BY <2>1, <2>2, <2>3 DEF DoneSteps
  <2>5. Started' = Started
    BY <2>1 DEF Started
  <2> QED BY <2>1, <2>4, <2>5, RepairPaid
<1>13. CASE Raise
  <2>1. /\ spent' = spent /\ phase' \in Ended /\ phase \notin Ended /\ iterations' = iterations + 1
        /\ Len(steps') = Len(steps)
    BY <1>13, RaiseRows DEF Raise, OnlyRow, Ended
  <2> QED BY <2>1, EndPaid
<1>14. CASE Over \/ UNCHANGED vars
  <2>1. UNCHANGED <<steps, spent, phase, task, step, status, iterations>>
    BY <1>14 DEF Over, vars, rows, memory
  <2>2. UNCHANGED <<Started, DoneSteps, Charges, Ahead, LoopIsBounded>>
    BY <2>1 DEF Started, DoneSteps, Charges, Ahead, LoopIsBounded
  <2> QED BY <2>1, <2>2 DEF IterationsOK
<1> QED BY <1>1, <1>2, <1>3, <1>4, <1>5, <1>6, <1>7, <1>8, <1>9, <1>10, <1>11, <1>12, <1>13, <1>14
     DEF Next, Controller

(***************************************************************************)
(* The invariant and what follows from it                                  *)
(***************************************************************************)
IndInv ==
  /\ Core /\ ActiveOK /\ DoneTasksOK
  /\ phase = "DONE" => \A t \in Tasks : status[t] = "DONE"
  /\ DecisionsAgree /\ AcceptedWorkIsKept /\ ApproachOK
  /\ CountsOK /\ BudgetOK /\ IterationsOK

LEMMA CoreAtFirst ==
  ASSUME Init
  PROVE  Core
<1>1. DOMAIN steps = {} /\ steps \in Seq(StepRows)
  BY DEF Init
<1>2. TypeOK
  <2>1. status \in [Tasks -> TaskStatuses] /\ current \in [Tasks -> Nat \cup {None}]
        /\ spent \in [Tasks -> Nat]
    BY DEF Init, TaskStatuses
  <2>2. task \in Tasks \cup {None} /\ step \in Nat \cup {None}
        /\ approach \in Approaches \cup {None} /\ verdict \in Verdicts \cup {NoVerdict}
    BY DEF Init
  <2>3. steps \in Seq([task : Tasks, paths : SUBSET Paths, status : StepStatuses,
                       failed : Nat, tried : SUBSET (Approaches \cup {None}),
                       passed : BOOLEAN, spent : Nat])
    BY <1>1 DEF StepRows
  <2> QED BY <2>1, <2>2, <2>3 DEF Init, TypeOK, Phases
<1>3. RunOK
  BY DEF Init, RunOK, Working
<1>4. RestOK
  BY <1>1 DEF Init, RestOK, Working
<1> QED BY <1>1, <1>2, <1>3, <1>4 DEF Core, StepsOK

LEMMA CountsAtFirst ==
  ASSUME Init
  PROVE  CountsOK /\ BudgetOK
<1>1. \A t \in Tasks : 1..spent[t] = {}
  BY DEF Init
<1>2. \A a : a \notin Charges
  BY <1>1 DEF Charges
<1>3. Charges = {}
  BY <1>2
<1>4. ASSUME NEW t \in Tasks PROVE Fails(t) = {}
  <2>1. StepsOf(t) = {}
    BY DEF Init, StepsOf
  <2> QED BY <2>1 DEF Fails
<1>5. CountsOK
  BY <1>3, <1>4, FS_EmptySet DEF CountsOK
<1>6. \A t \in Tasks : FailedAttempts(t) = 0
  BY <1>4, <1>5, FailedIsCount, FS_EmptySet
<1>7. \A t \in Tasks : Due(t) = 0 /\ spent[t] = 0 /\ phase \notin Ended
  BY DEF Init, Due, Ended
<1>8. MaxTaskAttempts \in Nat \ {0}
  BY BudgetAssumption
<1> QED BY <1>5, <1>6, <1>7, <1>8 DEF BudgetOK

LEMMA InvAtFirst ==
  ASSUME Init
  PROVE  IndInv
<1>1. Core /\ CountsOK /\ BudgetOK
  BY CoreAtFirst, CountsAtFirst
<1>2. IterationsOK
  <2>1. iterations = 0 /\ phase \notin Ended /\ Ahead = 0
    BY DEF Init, Ended, Ahead
  <2>2. /\ Cardinality(Started) \in Nat /\ Cardinality(DoneSteps) \in Nat
        /\ Cardinality(Charges) \in Nat
    BY <1>1, CountFacts
  <2>3. iterations <= Cardinality(Started) + 2 * Cardinality(DoneSteps)
                      + 3 * Cardinality(Charges) + Ahead
    BY <2>1, <2>2
  <2> QED BY <2>1, <2>3 DEF IterationsOK
<1>3. DOMAIN steps = {}
  BY DEF Init
<1>4. ActiveOK /\ ApproachOK /\ (phase = "DONE" => \A t \in Tasks : status[t] = "DONE")
  BY DEF Init, ActiveOK, ApproachOK, Ended
<1>5. DoneTasksOK
  BY DEF Init, DoneTasksOK
<1>6. DecisionsAgree
  BY DEF Init, DecisionsAgree
<1>7. AcceptedWorkIsKept
  BY <1>3 DEF AcceptedWorkIsKept, Live, StepsOf
<1> QED BY <1>1, <1>2, <1>4, <1>5, <1>6, <1>7 DEF IndInv

LEMMA InvKept ==
  ASSUME IndInv, [Next]_vars
  PROVE  IndInv'
<1>0. /\ Core /\ ActiveOK /\ DoneTasksOK
      /\ phase = "DONE" => \A t \in Tasks : status[t] = "DONE"
      /\ DecisionsAgree /\ AcceptedWorkIsKept /\ ApproachOK
      /\ CountsOK /\ BudgetOK /\ IterationsOK
  BY DEF IndInv
<1>1. phase = "REPAIRING" => FailedAttempts(task) \in Nat
  BY <1>0, AtWork, FailedIsCount DEF Working
<1>2. Core' /\ ActiveOK' /\ DoneTasksOK'
  BY <1>0, CoreKept, ActiveKept, DoneTasksKept
<1>3. phase' = "DONE" => \A t \in Tasks : status'[t] = "DONE"
  BY <1>0, DoneRunKept
<1>4. DecisionsAgree' /\ AcceptedWorkIsKept' /\ ApproachOK'
  BY <1>0, <1>1, DecisionsKept, PathsKept, ApproachKept
<1>5. CountsOK' /\ BudgetOK' /\ IterationsOK'
  BY <1>0, BudgetKept, IterationsKept
<1> QED BY <1>2, <1>3, <1>4, <1>5 DEF IndInv

LEMMA Invariance == Spec => []IndInv
<1>1. Init => IndInv
  BY InvAtFirst
<1>2. IndInv /\ [Next]_vars => IndInv'
  BY InvKept
<1> QED BY <1>1, <1>2, PTL DEF Spec

\* Rows and memory of a run have their types.
THEOREM TypeCorrect == Spec => []TypeOK
<1>1. IndInv => TypeOK
  BY DEF IndInv, Core
<1> QED BY <1>1, Invariance, PTL

\* The rows of plan, tasks and steps and the state the loop keeps in memory agree: one task
\* and one step at a time, on DONE dependencies, and the same ones on both sides; the scope
\* that a repair records is the scope of what it does; and live steps of a task never share
\* a path, so that no replan does accepted work again.
THEOREM RowsAlwaysAgree == Spec => []RowsAgree
<1>1. IndInv => RowsAgree
  BY OneThing DEF IndInv, Core, RowsAgree
<1> QED BY <1>1, Invariance, PTL

\* Whatever was rejected, retried, replaced or superseded on the way: a task is DONE only with
\* DONE steps that each have an attempt that passed, on DONE dependencies, and a run only with
\* every task.
THEOREM DoneIsAlwaysComplete == Spec => []DoneIsComplete
<1>1. IndInv => DoneIsComplete
  BY DoneInCore DEF IndInv
<1> QED BY <1>1, Invariance, PTL

\* The failed attempts on the steps of a task, and the repairs charged to it, stay within the
\* limit of the task, for every limit and every plan, and the iterations of the loop within
\* what tasks, steps and charged repairs account for.
THEOREM BudgetsAreAlwaysKept == Spec => []BudgetsAreKept
<1>1. ASSUME IndInv PROVE BudgetsAreKept
  <2>1. Core /\ CountsOK /\ BudgetOK /\ IterationsOK
    BY <1>1 DEF IndInv
  <2>2. LoopIsBounded
    BY <2>1, BoundHolds
  <2>3. ASSUME NEW t \in Tasks
        PROVE  spent[t] <= MaxTaskAttempts /\ FailedAttempts(t) <= MaxTaskAttempts
    <3>1. MaxTaskAttempts \in Nat /\ spent[t] \in Nat /\ FailedAttempts(t) \in Nat
      BY <2>1, BudgetFacts
    <3>2. Due(t) \in {0, 1}
      BY DEF Due
    <3>3. CASE phase \in Ended
      BY <2>1, <3>3 DEF BudgetOK
    <3>4. CASE phase \notin Ended
      <4>1. spent[t] < MaxTaskAttempts /\ FailedAttempts(t) <= spent[t] + Due(t)
        BY <2>1, <3>4 DEF BudgetOK
      <4> QED BY <3>1, <3>2, <4>1
    <3> QED BY <3>3, <3>4
  <2> QED BY <2>2, <2>3 DEF BudgetsAreKept, BudgetIsKept
<1>2. IndInv => BudgetsAreKept
  BY <1>1
<1> QED BY <1>2, Invariance, PTL

\* An approach that failed on a step is not taken for that step again, except where a replan
\* found every path of the task accepted and could only repeat the step.
THEOREM NoApproachIsRepeated == Spec => []NoFailedApproachAgain
<1>1. IndInv => NoFailedApproachAgain
  BY DEF IndInv, ApproachOK, NoFailedApproachAgain
<1> QED BY <1>1, Invariance, PTL
=============================================================================
