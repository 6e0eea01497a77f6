---------------------------- MODULE PlanExecution ----------------------------
(***************************************************************************)
(* One run of AgentLoop: the controller drives the phases, TaskScheduler   *)
(* picks tasks, the verification agent gives verdicts, the repair agent    *)
(* turns a failed one into a retry, a structural replan of the task or a   *)
(* refusal. The rows of tasks, steps, attempts and the budget ledger are   *)
(* in SQLite; phase, active task and step, approach and verdict are        *)
(* AgentState, in memory.                                                  *)
(*                                                                         *)
(* The checkpoint of an attempt is AttemptJournal's subject: here an       *)
(* attempt is opened, and closed by its verdict or by the end of the run.  *)
(***************************************************************************)
EXTENDS TaskScheduler, Sequences, FiniteSets

CONSTANTS
  Tasks,           \* ids of the tasks of the plan
  Paths,           \* files that tasks may change
  Drafts,          \* what the planner may return
  Causes,          \* what can be wrong with a piece of work
  None,            \* None: no active task or step, no approach, no cause
  MaxStepAttempts, MaxTaskAttempts

\* A draft: dependencies and priorities, the list of paths each task may change, the rows of its
\* steps in the order of their ids, the tasks with external dependencies, and whether
\* the dependency environment of the project is BLOCKED. No path is listed twice
\* (canonicalize_change_paths), and no two steps of a task change one (build_steps).
ASSUME DraftAssumption ==
  /\ Tasks \subseteq Nat /\ IsFiniteSet(Tasks) /\ None \notin Nat /\ None \notin Causes
  /\ \A d \in Drafts :
       /\ d.deps \in [Tasks -> SUBSET Tasks] /\ d.priority \in [Tasks -> Int]
       /\ d.paths \in [Tasks -> Seq(Paths)]
       /\ d.steps \in Seq([task : Tasks, paths : SUBSET Paths])
       /\ d.external \in SUBSET Tasks /\ d.blocked \in BOOLEAN
       /\ \A t \in Tasks : t \notin d.deps[t]
                          /\ \E s \in DOMAIN d.steps : d.steps[s].task = t
                          /\ \A i, j \in DOMAIN d.paths[t] : i # j => d.paths[t][i] # d.paths[t][j]
       /\ \A s, u \in DOMAIN d.steps : s # u /\ d.steps[s].task = d.steps[u].task =>
                                         d.steps[s].paths \cap d.steps[u].paths = {}
ASSUME BudgetAssumption == MaxStepAttempts \in Nat \ {0} /\ MaxTaskAttempts \in Nat \ {0}

VARIABLES
  plan,               \* the draft that was stored
  status, current,    \* tasks.status, tasks.current_step
  steps,              \* rows of steps by id, with the attempts made on each
  spent,              \* budget_ledger.consumed of the tasks
  decided,            \* scope of the last row of replan_records
  phase, task, step,  \* AgentState
  approach,           \* AgentState.repair.approach; of the open attempt while VERIFYING
  verdict,            \* AgentState.verification
  action,             \* what the last repair chose
  iterations          \* of the loop

rows   == <<plan, status, current, steps, spent, decided>>
memory == <<phase, task, step, approach, verdict, action>>
vars   == <<rows, memory, iterations>>

Phases     == {"PLANNING", "READY", "EXECUTING", "VERIFYING", "REPAIRING", "DONE", "FAILED",
               "RAISED"}
Ended      == {"DONE", "FAILED", "RAISED"}
Executable == {"PENDING", "READY", "IN_PROGRESS"}
StepStatuses == Executable \cup {"VERIFYING", "DONE", "BLOCKED", "SUPERSEDED"}

(***************************************************************************)
(* Verdicts                                                                *)
(***************************************************************************)
\* What VerificationAgent._verify() may conclude, however it comes to it (module Verification).
Verdicts  == {[status |-> "PASS", cause |-> None]} \cup [status : {"FAIL", "BLOCKED"}, cause : Causes]
NoVerdict == [status |-> "none", cause |-> None]
\* FailureAnalyzer and approach_fingerprint: the failure class follows from the status.
Fingerprint(v) == <<v.status, v.cause>>
Approaches == {"FAIL", "BLOCKED"} \X Causes

(***************************************************************************)
(* Rows                                                                    *)
(***************************************************************************)
\* failed and tried: the FAILED and BLOCKED attempts on the step and their approaches;
\* passed: one of them is PASS; spent: the step's row of budget_ledger.
NewStep(t, paths) == [task |-> t, paths |-> paths, status |-> "PENDING",
                      failed |-> 0, tried |-> {}, passed |-> FALSE, spent |-> 0]
StepsOf(t) == {s \in DOMAIN steps : steps[s].task = t}
Live(t)    == {s \in StepsOf(t) : steps[s].status # "SUPERSEDED"}
ExecutableOf(rows_, t) == {s \in DOMAIN rows_ : rows_[s].task = t /\ rows_[s].status \in Executable}
First(ids) == CHOOSE s \in ids : \A u \in ids : s <= u

Init ==
  /\ plan \in Drafts
  /\ status = [t \in Tasks |-> "PENDING"] /\ current = [t \in Tasks |-> None]
  /\ steps = <<>> /\ spent = [t \in Tasks |-> 0] /\ decided = "none"
  /\ phase = "PLANNING" /\ task = None /\ step = None /\ approach = None
  /\ verdict = NoVerdict /\ action = "none"
  /\ iterations = 0

TypeOK ==
  /\ plan \in Drafts
  /\ status \in [Tasks -> TaskStatuses] /\ current \in [Tasks -> Nat \cup {None}]
  /\ steps \in Seq([task : Tasks, paths : SUBSET Paths, status : StepStatuses,
                    failed : Nat, tried : SUBSET (Approaches \cup {None}),
                    passed : BOOLEAN, spent : Nat])
  /\ spent \in [Tasks -> Nat] /\ decided \in {"none", "STEP", "TASK"}
  /\ phase \in Phases /\ task \in Tasks \cup {None} /\ step \in Nat \cup {None}
  /\ approach \in Approaches \cup {None}
  /\ verdict \in Verdicts \cup {NoVerdict}
  /\ action \in {"none", "RETRY_STEP", "REPLAN_TASK", "GIVE_UP"}
  /\ iterations \in Nat

(***************************************************************************)
(* Controller                                                              *)
(***************************************************************************)
Loop      == iterations' = iterations + 1
Enter(p)  == phase' = p
SetStatus(t, new) == status' = [status EXCEPT ![t] = new]
SetCurrent(t, id) == current' = [current EXCEPT ![t] = id]
Store(id, row)    == steps' = [steps EXCEPT ![id] = row]

\* plan(): the draft is stored, every task PENDING, and so is every step.
Plan ==
  /\ phase = "PLANNING" /\ Loop /\ Enter("READY")
  /\ steps' = [s \in DOMAIN plan.steps |-> NewStep(plan.steps[s].task, plan.steps[s].paths)]
  /\ UNCHANGED <<plan, status, current, spent, decided, task, step, approach, verdict, action>>

\* advance(), when start_next() finds a task: it is started with its first step.
Start ==
  /\ phase = "READY" /\ Loop /\ Enter("EXECUTING")
  /\ LET fresh == Refreshed(plan.deps, status)
     IN  \E t \in Selectable(plan.priority, fresh) :
           LET s == First(ExecutableOf(steps, t))
           IN  /\ status' = [fresh EXCEPT ![t] = "IN_PROGRESS"]
               /\ Store(s, [steps[s] EXCEPT !.status = "IN_PROGRESS"])
               /\ SetCurrent(t, s)
               /\ task' = t /\ step' = s
  /\ UNCHANGED <<plan, spent, decided, approach, verdict, action>>

\* Mutant: a plan is done when nothing is left to be started.
Settled_NothingLeft(st) == "DONE"

\* _settle(): the phase in which the run ends.
Settled(st) == IF \A t \in Tasks : st[t] = "DONE" THEN "DONE" ELSE "FAILED"

\* advance(), when it finds none: the refreshed statuses stay.
Settle ==
  /\ phase = "READY" /\ Loop
  /\ LET fresh == Refreshed(plan.deps, status)
     IN  /\ Selectable(plan.priority, fresh) = {}
         /\ status' = fresh /\ Enter(Settled(fresh))
  /\ UNCHANGED <<plan, current, steps, spent, decided, task, step, approach, verdict,
                 action>>

\* execute(): a task whose external dependencies are unavailable ends the run, with its
\* step, before an attempt is opened.
DependencyBlocked ==
  /\ phase = "EXECUTING" /\ Loop /\ Enter("FAILED")
  /\ task \in plan.external /\ plan.blocked
  /\ SetStatus(task, "BLOCKED") /\ Store(step, [steps[step] EXCEPT !.status = "BLOCKED"])
  /\ approach' = None
  /\ UNCHANGED <<plan, current, spent, decided, task, step, verdict, action>>

\* execute(): an attempt is opened and the coder works; what it did is seen by verify().
Execute ==
  /\ phase = "EXECUTING" /\ ~(task \in plan.external /\ plan.blocked) /\ Loop
  /\ Enter("VERIFYING")
  /\ UNCHANGED <<rows, task, step, approach, verdict, action>>

\* pass_step, fail_step, block_step and the same of tasks: the status that goes with a verdict.
StatusAfter == [PASS |-> "DONE", FAIL |-> "IN_PROGRESS", BLOCKED |-> "BLOCKED"]

\* finish_verification(): the verdict and the step's status, in one transaction.
Verified(row, v) == [row EXCEPT !.status = StatusAfter[v]]

\* finish() of a FAILED or BLOCKED attempt.
Failed(row) == [row EXCEPT !.failed = @ + 1, !.tried = @ \cup {approach}]

\* verify(), when the step is not accepted: the attempt is closed, repair follows.
StepRejected ==
  /\ phase = "VERIFYING" /\ steps[step].status = "IN_PROGRESS" /\ Loop /\ Enter("REPAIRING")
  /\ \E v \in Verdicts :
       /\ v.status # "PASS" /\ verdict' = v
       /\ Store(step, Verified(Failed(steps[step]), v.status))
  /\ UNCHANGED <<plan, status, current, spent, decided, task, step, approach, action>>

StepPassed == [steps EXCEPT ![step] = [Verified(@, "PASS") EXCEPT !.passed = TRUE]]

\* verify(), when the step is accepted and the task has a step to execute.
NextStep ==
  /\ phase = "VERIFYING" /\ steps[step].status = "IN_PROGRESS" /\ Loop /\ Enter("EXECUTING")
  /\ LET left == ExecutableOf(StepPassed, task)
     IN  /\ left # {}
         /\ steps' = [StepPassed EXCEPT ![First(left)].status = "IN_PROGRESS"]
         /\ SetCurrent(task, First(left)) /\ step' = First(left)
  /\ \E v \in Verdicts : v.status = "PASS" /\ verdict' = v
  /\ approach' = None
  /\ UNCHANGED <<plan, status, spent, decided, task, action>>

\* begin_task_verification() does not raise.
TaskVerifiable(passed) ==
  /\ status[task] = "IN_PROGRESS"
  /\ \A s \in Live(task) : passed[s].status = "DONE"

\* verify(), when the last step is accepted: the task is verified as a whole, and a task
\* that is not accepted goes to repair with the step that was accepted.
VerifyTask ==
  /\ phase = "VERIFYING" /\ steps[step].status = "IN_PROGRESS" /\ Loop
  /\ ExecutableOf(StepPassed, task) = {} /\ TaskVerifiable(StepPassed)
  /\ steps' = StepPassed /\ approach' = None
  /\ \E v, w \in Verdicts :
       /\ v.status = "PASS" /\ verdict' = w
       /\ SetStatus(task, StatusAfter[w.status])
       /\ \/ w.status = "PASS" /\ Enter("READY") /\ step' = None
          \/ w.status # "PASS" /\ Enter("REPAIRING") /\ step' = step
  /\ UNCHANGED <<plan, current, spent, decided, task, action>>

\* verify(): VerificationError. The step was accepted and its attempt is closed, and the
\* task is not in a status from which it can be verified.
VerifyRaises ==
  /\ phase = "VERIFYING" /\ steps[step].status = "IN_PROGRESS" /\ Loop /\ Enter("RAISED")
  /\ ExecutableOf(StepPassed, task) = {} /\ ~TaskVerifiable(StepPassed)
  /\ steps' = StepPassed /\ approach' = None
  /\ \E v \in Verdicts : v.status = "PASS" /\ verdict' = v
  /\ UNCHANGED <<plan, status, current, spent, decided, task, step, action>>

(***************************************************************************)
(* Repair                                                                  *)
(***************************************************************************)
Largest(a, b) == IF a >= b THEN a ELSE b
\* The FAILED and BLOCKED attempts on the steps of a task.
FailedAttempts(t) == Cardinality(UNION {{s} \X (1..steps[s].failed) : s \in StepsOf(t)})

\* Mutant: only rejected steps are charged, not rejected tasks.
Charge_FailedStepsOnly(t) == IF steps[step].status = "DONE" THEN spent[t] ELSE spent[t] + 1

\* consume_budget("TASK", t): every repair is charged, whatever was rejected.
Charge(t) == spent[t] + 1

\* The attempts that repair() counts: the ledger after this repair, or the failed ones.
TaskAttempts == Largest(Charge(task), FailedAttempts(task))
StepAttempts == Largest(steps[step].spent + 1, steps[step].failed)

\* Mutant: the step's limit is looked at first.
Selected_StepFirst ==
  IF StepAttempts < MaxStepAttempts THEN "RETRY_STEP"
  ELSE IF TaskAttempts >= MaxTaskAttempts THEN "GIVE_UP" ELSE "REPLAN_TASK"

\* RepairStrategySelector.select
Selected ==
  IF TaskAttempts >= MaxTaskAttempts THEN "GIVE_UP"
  ELSE IF StepAttempts < MaxStepAttempts THEN "RETRY_STEP" ELSE "REPLAN_TASK"

\* Mutant: an approach that failed is taken again.
Strategy_Repeats == Selected

\* RepairAgent.repair(): an approach that failed on the step escalates.
Strategy ==
  IF Fingerprint(verdict) \notin steps[step].tried THEN Selected
  ELSE IF Selected = "RETRY_STEP" THEN "REPLAN_TASK" ELSE "GIVE_UP"

\* Mutant: the replanner counts one attempt more than the selector.
DecisionScope_OffByOne(strategy) ==
  IF strategy = "RETRY_STEP" /\ steps[step].failed < MaxStepAttempts - 1 THEN "STEP" ELSE "TASK"

\* Mutant: a failed task asks for a new plan.
DecisionScope_Global(strategy) ==
  IF strategy = "RETRY_STEP" THEN "STEP" ELSE "GLOBAL"

\* Replanner.decide_step_failure and decide_task_failure
DecisionScope(strategy) ==
  IF strategy = "RETRY_STEP" /\ steps[step].failed < MaxStepAttempts THEN "STEP" ELSE "TASK"

\* Mutant: accepted paths are done again.
Replacements_Everything == [n \in DOMAIN plan.paths[task] |->
                              NewStep(task, {plan.paths[task][n]})]

\* The paths that are not accepted, in the order of the task.
Open(paths, accepted) ==
  LET open[n \in 0..Len(paths)] == IF n = 0 THEN <<>>
                                   ELSE IF paths[n] \in accepted THEN open[n - 1]
                                   ELSE Append(open[n - 1], paths[n])
  IN  open[Len(paths)]

\* The steps that replace the unfinished ones: one for each path that no accepted step changes.
Accepted == UNION {steps[s].paths : s \in {u \in StepsOf(task) : steps[u].status = "DONE"}}
Replacements == LET open == Open(plan.paths[task], Accepted)
                IN  [n \in DOMAIN open |-> NewStep(task, {open[n]})]

\* Mutant: steps that wait are kept beside their replacements.
Superseded_WaitingKept(s) ==
  IF steps[s].task = task /\ steps[s].status \in {"IN_PROGRESS", "BLOCKED"}
  THEN [steps[s] EXCEPT !.status = "SUPERSEDED"] ELSE steps[s]

\* supersede_unfinished_and_create: every step of the task that is not DONE
Superseded(s) == IF steps[s].task = task /\ steps[s].status # "DONE"
                 THEN [steps[s] EXCEPT !.status = "SUPERSEDED"] ELSE steps[s]

\* What every repair() records: the budgets and the replanner's decision.
Spend ==
  /\ spent' = [spent EXCEPT ![task] = Charge(task)]
  /\ decided' = DecisionScope(Strategy) /\ action' = Strategy
  /\ approach' = Fingerprint(verdict) /\ Loop
  /\ UNCHANGED <<plan, task, verdict>>
Charged(row) == [row EXCEPT !.spent = @ + 1]

GiveUp ==
  /\ phase = "REPAIRING" /\ Strategy = "GIVE_UP" /\ Spend
  /\ SetStatus(task, "FAILED") /\ Enter(Settled(status'))
  /\ Store(step, Charged(steps[step]))
  /\ UNCHANGED <<current, step>>

\* Mutant: the pointer of the task stays at the superseded step.
CurrentAfterReplan_Stale(first) == current[task]

CurrentAfterReplan(first) == first

ReplanTask ==
  /\ phase = "REPAIRING" /\ Strategy = "REPLAN_TASK" /\ Replacements # <<>> /\ Spend
  /\ Enter("EXECUTING")
  /\ LET first == Len(steps) + 1
         kept  == [s \in DOMAIN steps |->
                     [Superseded(s) EXCEPT !.spent = IF s = step THEN @ + 1 ELSE @]]
     IN  /\ steps' = [kept \o Replacements EXCEPT ![first].status = "IN_PROGRESS"]
         /\ SetCurrent(task, CurrentAfterReplan(first))
         /\ step' = first
  /\ UNCHANGED status

\* Mutant: a replan without replacements is nobody's case.
Retry_OnlyWhenAsked ==
  /\ phase = "REPAIRING" /\ Spend /\ Enter("EXECUTING") /\ Strategy = "RETRY_STEP"
  /\ Store(step, [Charged(steps[step]) EXCEPT !.status = "IN_PROGRESS"])
  /\ UNCHANGED <<status, current, step>>

\* RETRY_STEP, and REPLAN_TASK where every path is accepted: the same step again.
Retry ==
  /\ phase = "REPAIRING" /\ Spend /\ Enter("EXECUTING")
  /\ Strategy = "RETRY_STEP" \/ (Strategy = "REPLAN_TASK" /\ Replacements = <<>>)
  /\ Store(step, [Charged(steps[step]) EXCEPT !.status = "IN_PROGRESS"])
  /\ UNCHANGED <<status, current, step>>

\* An exception of the planner, of a store or of the attempt's files ends the run. While a verdict
\* is given it may come before or after the transactions that begin it and store it. The attempt
\* is closed as BLOCKED by its recovery, or as PASS where it was to be committed; an accepted
\* step may have been the last one, and the verification of its task have begun.
Raise ==
  /\ phase \notin Ended /\ Loop /\ Enter("RAISED")
  /\ \/ phase # "VERIFYING" /\ UNCHANGED <<steps, status>>
     \/ /\ phase = "VERIFYING" /\ UNCHANGED status
        /\ \E s \in {"IN_PROGRESS", "VERIFYING", "DONE", "BLOCKED"} :
             Store(step, [Failed(steps[step]) EXCEPT !.status = s])
     \/ /\ phase = "VERIFYING" /\ steps' = StepPassed
        /\ \/ UNCHANGED status
           \/ /\ ExecutableOf(StepPassed, task) = {} /\ TaskVerifiable(StepPassed)
              /\ SetStatus(task, "VERIFYING")
  /\ UNCHANGED <<plan, current, spent, decided, task, step, approach, verdict, action>>

Over == phase \in Ended /\ UNCHANGED vars

Controller == \/ Plan \/ Start \/ Settle \/ DependencyBlocked \/ Execute \/ StepRejected \/ NextStep
              \/ VerifyTask \/ VerifyRaises \/ GiveUp \/ ReplanTask \/ Retry
Next     == Controller \/ Raise \/ Over
Spec     == Init /\ [][Next]_vars
FairSpec == Spec /\ WF_vars(Controller)

(***************************************************************************)
(* Properties                                                              *)
(***************************************************************************)
\* One thing is worked on: at most one task is active, it is the one the controller holds
\* and all its dependencies are DONE. While the coder works or its work is judged, the
\* active step is the task's current step in SQLite and the only one of the plan that is
\* in progress.
OneThingAtATime ==
  /\ \A t \in ActiveTasks(status) : t = task /\ \A d \in plan.deps[t] : status[d] = "DONE"
  /\ phase \in {"EXECUTING", "VERIFYING"} =>
       /\ current[task] = step /\ steps[step].task = task
       /\ {s \in DOMAIN steps : steps[s].status = "IN_PROGRESS"} = {step}

\* What is DONE is complete: a DONE task has only DONE steps, each with an attempt that
\* passed, on top of DONE dependencies, and the run is DONE only with every task.
DoneIsComplete ==
  /\ \A t \in Tasks : status[t] = "DONE" =>
       /\ \A s \in Live(t) : steps[s].status = "DONE" /\ steps[s].passed
       /\ \A d \in plan.deps[t] : status[d] = "DONE"
  /\ phase = "DONE" => \A t \in Tasks : status[t] = "DONE"

\* Neither the failed attempts of a task nor the repairs charged to it exceed the limit,
\* whatever mixture of retries and replacements was chosen.
BudgetIsKept == \A t \in Tasks : spent[t] <= MaxTaskAttempts /\ FailedAttempts(t) <= MaxTaskAttempts

\* The scope that the replanner records is the scope of what the repair agent does.
DecisionsAgree == decided # "none" => (decided = "STEP" <=> action = "RETRY_STEP")

\* A path is never changed by two live steps of a task after a replan: accepted work is
\* not done again.
AcceptedWorkIsKept ==
  \A t \in Tasks : \A s, u \in Live(t) : s # u => steps[s].paths \cap steps[u].paths = {}

\* An approach that failed on a step is not chosen again for it: it comes back only where a
\* structural replan was asked for and every path of the task was accepted already.
NoFailedApproachAgain ==
  phase = "VERIFYING" /\ approach \in steps[step].tried \ {None} => action = "REPLAN_TASK"

\* The loop cannot run out of iterations by going round: three of them set the run up and end
\* it, every task costs one, every step two, and what a repair adds is charged to a budget.
Charges == UNION {{t} \X (1..spent[t]) : t \in Tasks}
LoopIsBounded ==
  iterations <= 3 + Cardinality(Tasks) + 3 * Cardinality(Charges) + 2 * Len(steps)

\* Every run ends.
RunEnds == <>(phase \in Ended)

\* One task and one step at a time, as the loop remembers them and the database holds them; the decision that
\* is recorded is the one that is taken, and no later step undoes the work of an accepted one.
RowsAgree == TypeOK /\ OneThingAtATime /\ DecisionsAgree /\ AcceptedWorkIsKept

\* Repairs, replans and the phases they cost are paid for, up to the last one.
BudgetsAreKept == BudgetIsKept /\ LoopIsBounded

\* The repair of a rejected task leads to a verdict, a replan or a refusal, never to an
\* exception of the verifier.
RepairIsUsable == [][~VerifyRaises]_vars

\* What was accepted stays accepted: a DONE step is not reopened.
DoneStepsStayDone ==
  [][\A s \in DOMAIN steps : steps[s].status = "DONE" => steps'[s].status = "DONE"]_vars
=============================================================================
