------------------------------ MODULE Planner ------------------------------
(***************************************************************************)
(* PlannerAgent.plan() and replan(): the model is asked for a goal and for *)
(* components, the components are built into tasks and a graph (TaskGraph) *)
(* or rejected and asked for again, and the draft is stored by PlanStore   *)
(* and StepStore, one transaction after the other. A process may die       *)
(* between two of them. What a run does with its plan (PlanExecution) is   *)
(* here one step.                                                          *)
(***************************************************************************)
EXTENDS TaskGraph, TaskScheduler

CONSTANTS
  Files,           \* the paths a task may own
  Components,      \* lists of tasks the model may answer with
  ModelGraph,      \* BOOLEANs: may dependencies come from the model, from the contracts?
  MaxRepairs,      \* planner_repair_attempts
  MaxPlanRepairs,  \* planner_plan_repairs
  MaxPlans, MaxCrashes

\* A task of an answer that parses; `defect' is what a later check finds wrong with it: a path that
\* is none, or anything else in the wording of the task or of its steps.
StepRecords == [requires : SUBSET Names, produces : SUBSET Names, paths : SUBSET Files]
Tasks == [key : Names, requires : SUBSET Names, produces : SUBSET Names, paths : SUBSET Files,
          specs : SUBSET Files, steps : Seq(StepRecords), defect : {"none", "path", "schema"}]

ASSUME ComponentAssumption == Components \subseteq Seq(Tasks)
ASSUME RepairAssumption == {MaxRepairs, MaxPlanRepairs, MaxPlans, MaxCrashes} \subseteq Nat
ASSUME ModelAssumption  == ModelGraph \subseteq BOOLEAN

VARIABLES
  plans,    \* rows of plans, with their tasks, dependencies and steps
  pc, asked, repairs, \* where build_draft() and the stores are; repairs of a stage; plan repairs
  job,      \* the request: which plan it replaces, and the keys it invalidates
  draft,    \* tasks and dependencies; at stage "graph" only those that `requires' named
  outcome,  \* how the last request ended
  answers,  \* answers of the model while a draft is built
  crashes

request == <<pc, asked, repairs, job, draft, outcome, answers>>
vars    == <<plans, request, crashes>>

NoDraft == [tasks |-> <<>>, deps |-> <<>>]
NewPlan == [previous |-> 0, invalid |-> {}]
Last    == Len(plans)
Plan(n) == plans[n]
Old     == plans[job.previous]

Init ==
  /\ plans = <<>> /\ pc = "idle" /\ asked = 0 /\ repairs = 0 /\ job = NewPlan
  /\ draft = NoDraft /\ outcome = "none" /\ answers = 0 /\ crashes = 0

Asking == {"goal", "decompose", "graph"}
Stages == Asking \cup {"create", "external", "supersede", "metadata", "carry", "result", "steps"}

TypeOK ==
  /\ pc \in {"idle"} \cup Stages /\ asked \in 0..MaxRepairs /\ repairs \in 0..MaxPlanRepairs
  /\ job.previous \in 0..Last /\ job.invalid \subseteq Names
  /\ outcome \in {"none", "planned", "rejected", "raised", "refused"} /\ crashes \in 0..MaxCrashes
  /\ \A n \in 1..Last :
       /\ Plan(n).status \in {"ACTIVE", "DONE", "FAILED", "SUPERSEDED"}
       /\ Plan(n).version \in 1..n /\ Plan(n).replaces \in 0..n - 1
       /\ DOMAIN Plan(n).st = DOMAIN Plan(n).tasks /\ Plan(n).result \subseteq DOMAIN Plan(n).tasks
       /\ \A t \in DOMAIN Plan(n).tasks : Plan(n).st[t] \in TaskStatuses

(***************************************************************************)
(* The draft                                                               *)
(***************************************************************************)
\* The end of a request, and a step to a later stage of it.
Ends(how)   == pc' = "idle" /\ outcome' = how /\ draft' = NoDraft /\ asked' = 0 /\ repairs' = 0
Enter(next) == pc' = next /\ UNCHANGED <<asked, repairs, draft, outcome>>
Keep        == UNCHANGED <<job, answers, crashes>>

Request ==
  /\ pc = "idle" /\ Last < MaxPlans /\ pc' = "goal" /\ outcome' = "none" /\ answers' = 0
  /\ \/ job' = NewPlan
     \/ \E n \in 1..Last : \E keys \in SUBSET {t.key : t \in {Plan(n).tasks[i] : i \in DOMAIN Plan(n).tasks}} :
          job' = [previous |-> n, invalid |-> keys]
  /\ UNCHANGED <<plans, asked, repairs, draft, crashes>>

\* Mutant: one repair too many.
Patience_OneMore == asked <= MaxRepairs

Patience == asked < MaxRepairs

Counts == answers' = answers + 1

\* build_draft(): what is checked before the graph is built. A path that is none raises at once.
HasBadPath(raw) == \E i \in DOMAIN raw : raw[i].defect = "path"
Buildable(raw) ==
  /\ Len(raw) \in 1..MaxTasks /\ \A i \in DOMAIN raw : raw[i].defect # "schema"
  /\ StepsHold(raw, Normalized(raw)) /\ ContractsHold(Normalized(raw))

\* The components that pass, as the tasks of a draft that waits for its graph.
Prepared == {[tasks |-> Normalized(raw), deps |-> KeyEdges(raw)] :
               raw \in {r \in Components : ~HasBadPath(r) /\ Buildable(r)}}
Raises == Ends("raised") /\ answers' = 0
Inferable(ts) == GraphHolds(ts, Inferred(ts))

Accepts(d, deps) == draft' = [tasks |-> d.tasks, deps |-> Merged(deps, d.deps)]
                    /\ pc' = "create" /\ asked' = 0 /\ answers' = 0 /\ UNCHANGED <<repairs, outcome>>

\* A PlannerError: the components are asked for again.
Replans ==
  /\ Counts
  /\ IF repairs < MaxPlanRepairs
     THEN pc' = "decompose" /\ repairs' = repairs + 1 /\ asked' = 0 /\ draft' = NoDraft /\ UNCHANGED outcome
     ELSE Ends("rejected")

\* DependencyBuilder.build() with no answer left: the graph of the contracts, if repairs are on.
FallsBack ==
  IF MaxRepairs > 0 /\ Inferable(draft.tasks) THEN Accepts(draft, Inferred(draft.tasks)) ELSE Replans

\* generate_with_repair(): an answer that does not parse, or does not hold as a graph.
Garbled ==
  /\ pc \in Asking /\ UNCHANGED <<plans, job, crashes>>
  /\ IF Patience THEN Counts /\ asked' = asked + 1 /\ UNCHANGED <<pc, repairs, draft, outcome>>
     ELSE IF pc = "graph" THEN FallsBack ELSE Counts /\ Ends("rejected")

Goal ==
  /\ pc = "goal" /\ pc' = "decompose" /\ asked' = 0 /\ Counts
  /\ UNCHANGED <<plans, repairs, job, draft, outcome, crashes>>

Decompose ==
  /\ pc = "decompose" /\ UNCHANGED <<plans, job, crashes>>
  /\ \/ /\ TRUE \in ModelGraph /\ draft' \in Prepared /\ Counts
        /\ pc' = "graph" /\ asked' = 0 /\ UNCHANGED <<repairs, outcome>>
     \/ FALSE \in ModelGraph /\ \E d \in Prepared :
          IF Inferable(d.tasks) THEN Accepts(d, Inferred(d.tasks)) ELSE Raises
     \/ (\E raw \in Components : HasBadPath(raw)) /\ Raises
     \/ (\E raw \in Components : ~HasBadPath(raw) /\ ~Buildable(raw)) /\ Replans

\* parse_response(): any graph that holds; the edges that `requires' named are merged into it.
Graphs == [ts \in {d.tasks : d \in Prepared} |->
             {deps \in [DOMAIN ts -> SUBSET DOMAIN ts] : GraphHolds(ts, deps)}]
Graph ==
  /\ pc = "graph" /\ UNCHANGED <<plans, job, crashes>>
  /\ \E deps \in Graphs[draft.tasks] : Accepts(draft, deps)

(***************************************************************************)
(* The rows                                                                *)
(***************************************************************************)
\* Mutant: the graph is not validated again with the edges that were merged into it.
Storable_Merged(d) == PathsAreOwned(d.tasks)

\* _prepare_tasks() and validate_task_graph()
Storable(d) == PathsAreOwned(d.tasks) /\ GraphHolds(d.tasks, d.deps)

Row(d) == [status |-> "ACTIVE", version |-> 1, replaces |-> 0, tasks |-> d.tasks, deps |-> d.deps,
           st |-> [t \in DOMAIN d.tasks |-> "PENDING"], result |-> {},
           external |-> FALSE, steps |-> [t \in DOMAIN d.tasks |-> <<>>]]

\* The transaction of the plan, its tasks and its dependencies.
Create ==
  /\ pc = "create" /\ Keep
  /\ IF Storable(draft) THEN plans' = Append(plans, Row(draft)) /\ Enter("external")
     ELSE Ends("refused") /\ UNCHANGED plans

External ==
  /\ pc = "external" /\ Keep /\ plans' = [plans EXCEPT ![Last].external = TRUE]
  /\ Enter(IF job.previous = 0 THEN "steps" ELSE "supersede")

Supersede ==
  /\ pc = "supersede" /\ Keep /\ Enter("metadata")
  /\ plans' = [plans EXCEPT ![job.previous].status = "SUPERSEDED"]

\* Mutant: the revision is written into the row of the plan it replaces.
Revision_Old == job.previous

\* The row of the revision.
Revision == Last

Version == Old.version + 1

Metadata ==
  /\ pc = "metadata" /\ Keep /\ Enter("carry")
  /\ plans' = [plans EXCEPT ![Revision].version = Version, ![Revision].replaces = job.previous]

\* Mutant: work that was invalidated is carried over.
Carried_Anyway(key) == \E u \in DOMAIN Old.tasks : Old.tasks[u].key = key /\ Old.st[u] = "DONE"

Carried(key) == /\ key \notin job.invalid
                /\ \E u \in DOMAIN Old.tasks : Old.tasks[u].key = key /\ Old.st[u] = "DONE"

NewStatus(t) == IF Carried(Plan(Last).tasks[t].key) THEN "DONE"
                ELSE IF Plan(Last).tasks[t].key \in job.invalid THEN "SUPERSEDED" ELSE "PENDING"
\* Tasks of the revision in the order of their ids, without those that need no change.
Uncarried == {t \in DOMAIN Plan(Last).tasks : Plan(Last).st[t] # NewStatus(t)}
First(ts) == CHOOSE t \in ts : \A u \in ts : t <= u

Carry ==
  /\ pc = "carry" /\ Keep
  /\ IF Uncarried = {} THEN Enter("steps") /\ UNCHANGED plans
     ELSE LET t == First(Uncarried)
          IN  /\ plans' = [plans EXCEPT ![Last].st[t] = NewStatus(t)]
              /\ Enter(IF NewStatus(t) = "DONE" THEN "result" ELSE "carry")

\* set_task_result() of the task that was carried last.
Result ==
  /\ pc = "result" /\ Keep /\ Enter("carry")
  /\ plans' = [plans EXCEPT ![Last].result = @ \cup {t \in DOMAIN Plan(Last).tasks : Plan(Last).st[t] = "DONE"}]

\* Mutant: a task that was carried over gets no steps.
Stepless_NotCarried == {t \in DOMAIN Plan(Last).tasks : DOMAIN Plan(Last).steps[t] = {} /\ Plan(Last).st[t] # "DONE"}

Stepless == {t \in DOMAIN Plan(Last).tasks : DOMAIN Plan(Last).steps[t] = {}}

\* create_steps(), one transaction for each task. A step that reaches outside its task raises: the
\* rows of the plan are there, its other steps are not.
CreateSteps ==
  /\ pc = "steps" /\ Keep
  /\ IF Stepless = {} THEN Ends("planned") /\ UNCHANGED plans
     ELSE LET t == First(Stepless)
          IN  IF ScopesHold(Plan(Last).tasks[t])
              THEN plans' = [plans EXCEPT ![Last].steps[t] = Steps(Plan(Last).tasks[t])] /\ Enter("steps")
              ELSE Ends("raised") /\ UNCHANGED plans

\* A run works on the plan it asked for, and ends it.
Closed(p, done) == \A t \in done : p.deps[t] \subseteq done
Work ==
  /\ pc = "idle" /\ outcome = "planned" /\ job.previous = 0 /\ Plan(Last).status = "ACTIVE"
  /\ \E done \in SUBSET DOMAIN Plan(Last).tasks :
       /\ Closed(Plan(Last), done)
       /\ plans' = [plans EXCEPT
            ![Last].status = IF done = DOMAIN Plan(Last).tasks THEN "DONE" ELSE "FAILED",
            ![Last].st = Refreshed(Plan(Last).deps, [t \in DOMAIN @ |-> IF t \in done THEN "DONE" ELSE @[t]]),
            ![Last].result = done]
  /\ UNCHANGED <<request, crashes>>

Crash ==
  /\ pc # "idle" /\ crashes < MaxCrashes /\ crashes' = crashes + 1
  /\ Ends("none") /\ answers' = 0 /\ UNCHANGED <<plans, job>>

Over == pc = "idle" /\ Last = MaxPlans /\ UNCHANGED vars
Next == \/ Request \/ Garbled \/ Goal \/ Decompose \/ Graph \/ Create \/ External \/ Supersede \/ Metadata
        \/ Carry \/ Result \/ CreateSteps \/ Work \/ Crash \/ Over
Spec == Init /\ [][Next]_vars

(***************************************************************************)
(* Properties                                                              *)
(***************************************************************************)
\* The scheduler gets every task of a stored graph done: started from PENDING, as long as a task
\* is left one that is left becomes READY.
Rounds(deps) ==
  LET st[n \in 0..Cardinality(DOMAIN deps)] ==
        IF n = 0 THEN [t \in DOMAIN deps |-> "PENDING"]
        ELSE [t \in DOMAIN deps |-> IF Refreshed(deps, st[n - 1])[t] \in {"READY", "DONE"} THEN "DONE" ELSE "PENDING"]
  IN  st[Cardinality(DOMAIN deps)]
StoredPlansCanFinish == \A n \in 1..Last : \A t \in DOMAIN Plan(n).deps : Rounds(Plan(n).deps)[t] = "DONE"

\* No file of a stored plan belongs to two tasks or to two steps, and a step owns only files of
\* its task, also in a plan a crash has left half written.
OneOwnerOfAFile ==
  \A n \in 1..Last : \A t, u \in DOMAIN Plan(n).tasks :
    \A s \in DOMAIN Plan(n).steps[t], r \in DOMAIN Plan(n).steps[u] :
      LET shared == Plan(n).steps[t][s] \cap Plan(n).steps[u][r]
      IN  shared # {} => t = u /\ s = r /\ shared \subseteq Plan(n).tasks[t].paths

\* When a request ends well, its plan is whole: every task has its steps, a task's files are
\* exactly those of its steps, every DONE task has a result and a plan that was replaced is SUPERSEDED.
PlannedIsWhole ==
  pc = "idle" /\ outcome = "planned" =>
    /\ Plan(Last).external /\ \A t \in DOMAIN Plan(Last).tasks :
         /\ DOMAIN Plan(Last).steps[t] # {}
         /\ UNION {Plan(Last).steps[t][s] : s \in DOMAIN Plan(Last).steps[t]} = Plan(Last).tasks[t].paths
         /\ (Plan(Last).st[t] = "DONE" => t \in Plan(Last).result)
    /\ job.previous # 0 => Old.status = "SUPERSEDED"

\* What is stored is a plan: owned file by file, and whole once its caller knows of it.
StoredIsAPlan == OneOwnerOfAFile /\ PlannedIsWhole

\* "DONE tasks are carried over, never re-executed": a revision that was returned to its caller has DONE the tasks
\* that were DONE in the plan it replaces and not invalidated, no others, and the next version.
RevisionKeepsWork ==
  pc = "idle" /\ outcome = "planned" /\ job.previous # 0 =>
    /\ Plan(Last).replaces = job.previous /\ Plan(Last).version = Old.version + 1
    /\ \A t \in DOMAIN Plan(Last).tasks :
         Plan(Last).st[t] = "DONE" <=>
           /\ Plan(Last).tasks[t].key \notin job.invalid
           /\ \E u \in DOMAIN Old.tasks : Old.tasks[u].key = Plan(Last).tasks[t].key /\ Old.st[u] = "DONE"

\* A request ends: the model is asked once, and once more per repair of a stage, for the goal, and
\* for the components and the graph of every draft.
QuestionsAreBounded == TypeOK /\ answers <= (MaxRepairs + 1) * (1 + 2 * (MaxPlanRepairs + 1))

\* History is kept: a plan that was replaced never changes again, except that it may be replaced
\* once more, and no plan is taken away.
HistoryIsKept ==
  [][\A n \in 1..Last : /\ n \in DOMAIN plans' /\ plans'[n].tasks = Plan(n).tasks /\ plans'[n].deps = Plan(n).deps
                        /\ n < Last => plans'[n] = [Plan(n) EXCEPT !.status = plans'[n].status]]_vars

\* Not what the code does: a draft that is invalid is asked for again while repairs are left.
InvalidPlansAreRepaired == outcome' \in {"raised", "refused"} => repairs = MaxPlanRepairs
RepairIsTried == [][InvalidPlansAreRepaired]_vars

\* Not what the code does: what a revision has left can be done.
RevisionCanFinish ==
  pc = "idle" /\ outcome = "planned" =>
    \A t \in DOMAIN Plan(Last).tasks : CalculatedStatus(Plan(Last).deps, Plan(Last).st, t) # "BLOCKED"

\* Not what the code does across a crash: one plan of the project is ACTIVE.
OnePlanIsActive == pc = "idle" => Cardinality({n \in 1..Last : Plan(n).status = "ACTIVE"}) <= 1
=============================================================================
