# PersistentCoder: TLA+ models, model checking and proofs

PersistentCoder is a local coding agent with durable state. An agent run works in
a sandbox copy of the user's project; a verified result becomes an immutable
patch manifest, and the manifest is published into the project only by an explicit
apply. Everything that matters survives the process in one SQLite database and
in framework-owned directories. This directory holds the formal models of that
code, the TLC runs that check them and the TLAPS proofs about them.

## Inventory

| Component | State | Operations | Interacts with | What makes it correct |
|---|---|---|---|---|
| Apply transaction (`app/apply/service.py`, apply part of `app/tasks/unit_of_work.py`) | `apply_journal` row, session row, source tree, `plan.json`, `<n>.before`, `<n>.intent`, `d<n>.created` files, project lock | `apply`, `recover_pending`, discard by others | session, manifest store, user's editor | all or nothing, undoable, final decisions, reservation released |
| Attempt journal (`app/agent/durable_attempts.py`, attempt part of `unit_of_work.py`, checkpoints of `app/sandbox/workspace.py`, `snapshot.py`) | `file_operation_journal`, `attempts`, checkpoint directories, workspace files | `begin`, `finish`, `recover`, `recover_pending` | controller, runtime start, workspace | an attempt that does not pass leaves no files, committed work survives a crash, recovery is idempotent |
| Agent session and run lifecycle (`app/agent/session.py`, `runtime.py`, `app/tasks/session_store.py`, `runtime_store.py`, `start_run`, `finish_terminal`) | session row with version, active run, manifest id; run row; the runtime's remembered copy | `run`, `discard_session`, `new_session`, `rebase_session_after_apply`, restart | apply, attempts, VS Code backend | legal transitions, compare-and-set on the version, a session is never stuck |
| Task scheduler and dependency graph (`app/tasks/scheduler.py`, `dependencies.py`, `store.py`) | task rows with status, priority, dependencies | `refresh`, `select_next`, `start_next`, status transitions | agent loop, replanner | one active task, dependencies first, a blocked plan ends |
| Steps, attempts, verification stores (`step_store.py`, `attempt_store.py`, `verification_store.py`, `verifier.py`) | step, attempt and verification rows | status transitions, `finish_verification` | controller | PASS only with fresh evidence |
| Agent loop and controller (`app/agent/loop.py`, `controller.py`, `state.py`) | `AgentState` phase and cursor, budgets | `plan`, `advance`, `execute`, `verify`, `repair`, `remember` | scheduler, coordinator, replanner | every run ends, budgets bound repair |
| Replanner (`app/tasks/replanner.py`, `replan_store.py`, `app/agent/repair`) | replan records, rejected approaches | `decide_*` | controller | a failed approach is not tried again, escalation ends |
| Sandbox workspace (`app/sandbox/workspace.py`, `snapshot.py`) | baseline, workspace, checkpoint trees, metadata | `create`, `open_session`, reset, checkpoint, rollback, commit | runtime, attempts | reset is all or nothing |
| Container command runner (`app/sandbox/runner.py`, `limits.py`) | running container, output buffer, slots | `run`, timeout, cancel, output flood | verifier, coder tools | slots are returned, output bounded |
| Coder executor and file batches (`app/agent/coder`, `app/tools/file_tools.py`) | read set, batch of file operations | `execute`, batch with undo | workspace | a batch applies wholly or not at all |
| Patch manifest builder and store (`app/apply/builder.py`, `manifest.py`, `store.py`) | immutable manifest rows | `build`, `insert`, `load` | runtime, apply | manifest is exactly the verified difference |
| Planner (`app/agent/planner`) | none durable before the plan is stored | decompose, validate, build graph | LLM, plan store | acyclic plan, one owner per file |
| Memory (`app/memory`) | memory rows, conflicts | add, merge, retrieve | controller | one current fact per key |
| Context builder and selector (`app/context`) | none | select within a budget | planner, coder | budget respected |
| Policy guards (`app/policy`, `app/sandbox/policy.py`, `project_path.py`) | none | classify paths, text, commands | tools | pure functions |
| VS Code backend and extension (`app/vscode_backend.py`, `vscode-extension/src`) | request queue, busy flag, process handle | requests, stop, restart | runtime | one operation at a time, every request answered |
| CLI, LLM client, training tools, stylesheets | none durable | input and output | runtime | not of a kind these models express |

The hard behaviour: process death between any two steps of an apply, an attempt,
a run or a replan; exceptions and cancellations between a durable decision and
its caller; transactions whose reply is lost; a user who edits the same files; a
second process on the same project; repair and replanning with three limits that
are counted in different places; threads that race with a container; an editor
that reaches all of it through queues. `PROJECT.json` lists each hazard at its
line, with the properties that are about it.

### How the models fit together

    EditorBackend      clicks, requests, processes          (extension, serve())
      AgentSession     session and run rows, sandboxes      (runtime, stores)
        Planner        a plan is asked for and stored       (planner, plan store)
          TaskGraph    what makes components a plan
        PlanExecution  tasks, steps, verdicts, repairs      (loop, controller)
          TaskScheduler
          AttemptJournal   checkpoint, verdict, recovery    (durable attempts)
          CoderExecutor    the conversation and its files
          Verification     what a verdict is made of        (verifier agent)
            CommandRunner  commands in containers
        PatchManifest  what a verified run changed          (builder, store)
        ApplyTransaction   the way into the project         (apply service)
          AtomicApply      what it promises

Each level takes the one below it as a single step with the outcomes the lower
module shows it to have. In `AgentSession` an attempt opens, writes and closes,
and recovery rolls an open one back (what `AttemptJournal` does between); an apply
commits or is refused (what `AtomicApply` promises); the loop ends with an outcome
(`RunEnds` of `PlanExecution`). In `PlanExecution` the coder's work is an execution
that is ok or not (`OkMeansDone` of `CoderExecutor`) and a verdict is one step
(`EvidenceIsCurrent` of `Verification`). `Verification` extends `CommandRunner`: its
commands are calls of the runner, step by step. In
`EditorBackend` an operation takes a while and succeeds or fails; the signal it
sends to a backend is the `Crash` of every module below. Only `ApplyTransaction` and
`AtomicApply` are joined by a refinement that is checked and proved; `Verification`
implements `CommandRunner` by construction, which is proved (`VerificationRuns`);
`Planner` uses the operators of `TaskScheduler` to say that a stored plan can be
executed.

## Modules

**`ApplyTransaction`** is `ApplyService` whole. Its variables are

- `source`, `dir`: for each manifest entry the bytes in the user's tree
  (`"before"` as the manifest expects, `"after"` as it publishes, `"foreign"`),
  and for each parent directory that may have to be created whether it is absent,
  made by this transaction or by somebody else;
- `journal`, `sess`, `sver`: the newest `apply_journal` row and the session row
  with its version;
- `plan`, `backup`, `intent`, `receipt`, `missing`: the files of the
  transaction's backup folder, each absent, whole or torn;
- `pc`, `idx`, `held`, `seen`, `failed`, `result`: the caller inside `apply()` or
  `recover_pending()`. The project lock is non-blocking and exclusive across
  processes, so one caller suffices; `pc = "idle"` is the free lock;
- `edited`, `authorized`, `calm`: history for the properties, and `used`, how much
  of each bound is spent.

There is one action per step between two effects: `Preflight`, `Recheck`,
`Reserve` (`prepare_apply`), `MakeStaging`, `WritePlan`, `CopyEntry`, `Restage`,
`Authorize` (`transition_apply` to APPLYING), `MakeDirectory`, `WriteReceipt`,
`CheckSource`, `WriteIntent`, `Promote`, `UnlinkSource`, `VerifyPublished`,
`Commit`, `HandleException` (the `except` branch of `_apply`), `Cleanup`; for
recovery `RecoverPending`, `RecoverBegin`, `CheckUntouched`, `ReadPlan`,
`UndoEntry`, `UndoAdd`, `CopyRestore`, `PutBack`, `UndoDirectory`,
`ConfirmRestored`, `Settle`, `RecordFailure`. Around them, at every step: `Fault`
(an exception or a cancellation), `LostReply` (a transaction that committed
although its caller saw an exception), `Crash`, `EditFile`, `EditDirectory` and
`Discard`.

What is abstracted: file content to three values; manifest and workspace digests,
staged copies and inode stamps (they detect tampering with framework-owned
storage, which nothing here does); the removal by the user of parent directories
that existed before; sibling files in created directories other than the
manifest's own; durability of a write against power loss (a crash is the death
of the process). Directories are independent of one another. A new reservation
starts with an empty backup folder, because its identifiers are fresh.

**`AtomicApply`** is what the service promises: a reservation, writes of single
entries, then a commit over a tree that is all published or a rollback over one
that is all restored, with only the user's edits excepted. `ApplyTransaction`
refines it with `content <- source` and `decision <- Decision`.

**`ApplyTransactionProofs`** holds the theorems about both.

**`AttemptJournal`** is `DurableAttemptCoordinator` with the two things it
coordinates, the checkpoints of `SandboxWorkspace` (or of
`DirectWorkspaceCheckpoints` if `Direct`) and the attempt part of
`RuntimeUnitOfWork`, and with the two callers that recover: the `except` branch of
`AgentRuntime.run()` and its constructor. Its variables are

- `ws`, `there`, `copy`: the files of the workspace, the checkpoint directories
  that exist and what they hold. A file's content is the number of the attempt
  that wrote it, 0 for the baseline, `Absent` for no file;
- `journal`, `attempt`, `owner`, `runs`, `session`: the rows of
  `file_operation_journal`, `attempts`, `agent_runs` and the session;
- `pc`, `task`, `cur`, `todo`, `run`, `fresh`, `left`, `restored`, `open`: the
  sequential process, which caller of the shared file steps it executes, and the
  runs that recovery has still to visit;
- `good`, `decided`, `hurt`: history for the properties, and `used`.

`begin()` is `PrepareAttempt`, `MakeCheckpoint`, `CopyFile`, `MarkReady`; the coder
is `Write`; `finish()` is `Accept` or `Reject`, then `ClearFile`, `Cleared`,
`RestoreFile`, `Restored` (rollback), `RemoveFile`, `RemoveDirectory` (commit of the
checkpoint) and `CompleteAttempt`; the branches of `recover()` are the disjuncts of
`RecoverNext`, which share those file steps and end in `CompleteRecovery` or
`RecordFailure`; `RecoverWithoutJournal` and `RestoredLatest` are the branch of
`recover_sandboxes` for a run without a journal. `Fault` is an exception at any
step, `Crash` the death of the process, `Exit` its regular end, `Discard` a
discarded session. Copying and removing a tree go file by file, because both stop
halfway under an exception or a crash.

What is abstracted: one workspace stands for the sandbox; runs of other sessions
and a second process are the subject of `AgentSession`, and so are the steps of
`Discard`, which is one step here; a file is written and removed in one step; state snapshots and the check that at most one attempt of a
target is open are left out. The session is `CLEAN`, `RUNNING` or `DIRTY`, the
two dirty states and `APPLIED` are not told apart. `hurt` records that a rollback
has started from a checkpoint other than the committed content, or a run over a
pending journal; these two are what `MCAttempt_torn.cfg` and `MCAttempt_stale.cfg`
are about, and `WorkspaceIsCommitted` and `WorkIsUndoable` are stated without
them, so that the violations do not hide others.

**`AttemptJournalProofs`** holds its theorems.

**`TaskScheduler`** has the scheduler and the dependency manager as operators on
the rows of a plan: `CalculatedStatus`, `Refreshed` (every new status from the rows
as they were read at its start), `ActiveTasks`, `Selectable`.

**`PlanExecution`** is one run of `AgentLoop`: the controller, the verification
agent, the repair agent, the replanner and the rows they write. Its variables are
the rows (`plan`, `status`, `current`, `steps`, `spent`, `decided`), `AgentState` in
memory (`phase`, `task`, `step`, `approach`, `verdict`, `action`) and `iterations` of the
loop. The actions are `Plan`, `Start` (refresh and selection of
a task), `Settle` (nothing can be selected: `DONE`, `FAILED` or an exception),
`DependencyBlocked`, `Execute`, the ends of a step's verification (`StepRejected`,
`NextStep` after `StepPassed`), `VerifyTask`, `VerifyRaises` (the row is not in the
status the verifier wants), and the repair: `Retry`, `ReplanTask`, `GiveUp`, with
`Charge` and `Spend` for the ledger, `Selected` and `Strategy` for the approach and
`DecisionScope` for the replanner's own count. `Raise` is an exception that ends the run. While
a verdict is given it may come before or after any of the transactions that begin and
store it (`verifier/agent.py:344`) and before the attempt is finished
(`controller.py:342`), so the step may be left in any of its statuses and its task
VERIFYING. Other handlers that write more than once are taken to raise at their
beginning or their end. A verdict is any of
`Verdicts`; what it rests on is `Verification`. Left out: contents of files, and
`decide_dependency_failure`, `decide_global_replan` and `global_replan`, which nothing
calls in a run.

**`PlanExecutionProofs`** holds its theorems.

**`AgentSession`** is `AgentRuntime` with the sessions, runs and sandboxes in
SQLite and on disk, and the part of `vscode_backend.py` that answers. Several
processes share `rows`, `runs`, `boxes` (baseline, workspace, open attempt, its
checkpoint), the user's `source` and what was `published`; `proc[p]` is what a process
does and remembers. Start and recovery: `Start`, `RecoverRun`, `RecoverFails`, `Open`,
`OpenFails`. A run: `Claim` or `Refuse`, `Begin`, `PlanStored`, `OpenAttempt`, `Write`,
`CloseAttempt`, `Returns` or `Raises`, `Finish` or `FinishFails`. The answers to the
editor: `Apply`, `ApplyRefused`, `Discard`, `DiscardRefused`, `Inspect`. A reset of the
sandbox, at a start, after an apply or for a discard, is step by step: `Copy`,
`KeepBase`, `KeepWork`, `ResetEnds`, `ResetFails`, then `Save` or `SaveConflicts`. `Crash`
may come at any step; `Edit` is the user. A change is named by the run that made
it. Every write of a row compares its version (`Owns`). `trampled` is history: a
sandbox was reset while an attempt was open in it. Left out: the operations
nothing calls (`new_session`, `list_dirty`, `_settle_session_after_run`,
`apply_to_project`) and the reports that change nothing.

**`AgentSessionProofs`** holds its theorems.

**`CommandRunner`** is `SandboxCommandRunner` with threads: `slots` is the
admission semaphore, `cached` the remembered answer of docker, `call[c]` a caller's
place, reason and code, `client[c]` and `container[c]` what docker runs, `printed`,
`piped` and `kept` its output in chunks, `cancelled[c]` the token. `Ask`, `Admit`,
`Prepare`, `Poll`, `Kill`, `KillClient`, `Join` are the caller; `Drain` the reader threads;
`Starts`, `Prints`, `Exits`, `Cancel` the world. Docker is external. A command may end with
any code, also with one the runner itself answers with; `Completed` is the conversion of
`_completed_result`: 137, or retained output that speaks of no memory or no space
(`marked`), becomes 125. So a code alone does not tell who gave it, and `OutputIsTrue`
says of each what may have caused it (`Caused`). Left out: `_communicate_compat`, the
path for a client without pipes, which only test doubles take.

**`Verification`** is `VerificationAgent._verify()` over the calls of `CommandRunner`, while
anybody edits the `Files` (one `revision` each) and builds the `Image`. `stage` is where it
is; `context` and `again` are the two `VerificationContext`s, read file by file
(`Capture`, `CaptureFails`) after the identity of the image was asked for (the calls
`Before` and `After`, `Identified`). `Begin` clears the cache of commands (`memo`, which may
hold answers of an earlier verification), asks the quality gate and refuses a task
without criteria. A criterion looks at a file (`Look`), needs no command to fail
(`NoCommand`), finds its command in the cache (`Recall`) or takes what its call returned
(`Take`, `Status`). The container of a command is made of the image of that moment and
copies the files one at a time (`ContainerStarts`, `Copy`; the wrapper has `set -eu`, so
nothing succeeds on half a copy): `input` is what it has got. `AllChecked` and `Conclusion` are
the rest: a failure beats what is blocked, and a pass needs the environment and the
context once more (`Same`). `evidence` is history: the revisions a result rests on.
The structured verifier has no cache: it asks again where the legacy one would recall,
which `Criteria` with different calls stand for. Left out: what the criteria are about,
and `verify_task`'s own look at artifacts.

**`CoderExecutor`** is `CodeExecutor.execute()` with the writes of the workspace:
`files` (a version per path), `before`, `dirs`; `pc`, the counters `iteration`, `mistakes`,
`shown`, and `observed`; `envelope`, `done`, `tools`, `result`. The actions are `Stopped`,
`Observe`, `Mistake`, `OutOfIterations`, `Edit` (an envelope is validated as a whole and
accepted or rejected), `WriteNext`, `BackupRaises`, `WriteFails`, `Undo`, `Undone`, `RunTool`,
`Report`. A path may lie below another, so that a file stands in the place of a
directory. The model may answer anything.

**`CoderToolsProofs`** extends `Verification` and `CoderExecutor` and holds the theorems of
both and of `CommandRunner`. Names that two of them would have begin with `Runner` or
`Verify` for that reason.

**`TaskGraph`** has the deterministic half of the planner as operators on a list
of tasks: `Normalized`, `Steps`, `StepsHold`, `ContractsHold`, `Inferred`, `Merged`, `Acyclic`,
`Supplied`, `GraphHolds`, `PathsAreOwned`, `ScopesHold`, with the two normalisations of names that
the code uses in different places (`Fold` strips and casefolds, `Squeeze` also
collapses white space). A requirement that is the key of a sibling becomes an edge
(`KeyEdges`), but only for a task without paths: the steps of a task with paths
still require the name, and `StepsHold` rejects the draft. A task that owns files has one
step for each (`FileStepsHold`); one that owns none has the steps the model declared for
it, in their order (`DeclaredStepsHold`), or a single one. What a declared step may own is
looked at when it is stored (`ScopesHold`), not before. Titles, descriptions and success
criteria of steps, which `TaskBuilder` fills in or the `"schema"` defect stands for, and the
names of files among what a step makes are left out.

**`Planner`** is `PlannerAgent.plan()` and `replan()`: a model is asked for the goal, the
components and, if it is trusted with that (`ModelGraph`), the graph (`Goal`, `Decompose`,
`Graph`). Each of the three is a `generate_with_repair` with its own count (`asked`): an
answer that does not parse or does not hold is asked for again (`Garbled`). Without an
answer a request for goal or components ends; without a graph the contracts give one
(`FallsBack`), unless that fails or repairs are off. Inside it is the repair of the plan
(`repairs`, `Replans`), for whatever raises a `PlannerError`. A draft that is accepted
(`Accepts`) is stored transaction by transaction: `Create`, `External`, `Supersede`, `Metadata`,
`Carry`, `Result`, `CreateSteps`, where a step that owns a file outside its task raises and
leaves the plan without its steps. `Crash` may come between any two. `Work` is a run that gets
tasks of the last plan done, along its dependencies. `plans` are the rows, `Tasks` what
a component may be once it parses, and `Components` the lists of them that the model may answer with.

**`PlannerProofs`** holds its theorems.

**`PatchManifest`** is `PatchManifestBuilder.build()` against two trees that others
write to: the four inventories (`OpenRoot`, `Visit`, `Visited`, `Listed`), one path and
then one file at a time, with the stamps it compares, the limits, the entries,
`insert_manifest` and the preview. A name that `ProjectPath.parse` does not take (`Refused`)
ends the walk that meets it (`Visit`), and so does a place the system does not let it
stat, scan or read (`Unreadable`, for any of `Faulty` that is next, `Reached`). A name with a
backslash, which `parse` reads as two names, is outside the model. `Edit` changes a place
in a tree at any moment.
`seen` is history: both trees at every moment of the request. Without `Restores` an edit
makes nothing of a tree what an inventory of the same build may already have seen there
(`PutsNothingBack`).

**`PatchManifestProofs`** holds its theorems.

**`EditorBackend`** is the extension and `serve()`: `proc`, `inbox`, `lines`, `killed` are
the backend processes and their pipes; `client` is `PersistentCoderProcess`, `current`
and `kind` the provider's requests, `view`, `toView`, `toHost` the webview and the
messages to and from it; `told` is history. `Boot`, `Read`, `Reply`, `Noise`, `Obey`, `Die`
are the processes; `ErrorEvent`, `ExitEvent`, `LineEvent`, `Dispose`, `LateKill` the
client's handlers; `Resolve`, `Press`, `ViewEvent`, `HostEvent` the view, the user and the
provider. The interpreter may be missing when the extension is activated: there is
then no client, and a status that stays "starting" (`Init`); a child that failed to spawn
has an exit code and is not killed (`Killable`). A folder is open in the editor;
without one the provider refuses before anything happens.

**`EditorBackendProofs`** holds its theorems.

**`MCApply`**, **`MCAttempt`**, **`MCPlan`**, **`MCSession`**, **`MCRunner`**, **`MCCoder`**,
**`MCPlanner`** and **`MCManifest`** give the instances; `EditorBackend` has numbers for
constants and is its own.

A definition with an underscore and a comment that begins "Mutant:" is what a
plausible bug would make of the definition after it. They are not used; putting
one in the place of its definition must break a property, and does. Where several
properties are checked as one conjunction (`ProjectIsSafe`, `FilesAreSafe`,
`RecordsAgree`, `RowsAgree`, `BudgetsAreKept`, `RowsAreTrue`, `StoredIsAPlan`,
`LimitsAreExact`, `EditorIsTrue`, `RepliesAreCurrent`, ...), the parts have names and
comments of their own.

## Runs

| Run | Shows | Bounds |
|---|---|---|
| `apply_core` | atomicity, undoability, agreement of session and journal (`ProjectIsSafe`); reports are durable; no write without a reservation and no decision taken back (`JournalLeads`); a new file is never clobbered; `AtomicApply` is implemented | 3 entries (one per operation), the added file in a new directory, 2 applies, 2 crashes, 1 exception or lost reply, 1 edit, 1 discard, torn writes |
| `apply_crash` | with crashes alone every recovery succeeds, every reservation ends and the source is never left half published | the same 3 entries without a new directory, 4 crashes, 2 applies |
| `attempt_core` | the workspace stays at the committed content and work starts only over a whole checkpoint (`FilesAreSafe`); journal, attempt history and checkpoint directories agree, attempts do not nest (`RecordsAgree`); decisions are final and survive crashes (`DecisionsHold`) | 2 files (one of the baseline, one that attempts add), 2 attempts, 2 runs, 2 crashes, 2 exceptions, 1 discard |
| `attempt_live` | in the user's own directory: what snapshots keep stays at the committed content, and every pending journal is settled after a crash | 1 visible, 1 new and 1 ignored file, 2 attempts, 2 runs, 1 crash |
| `plan_core` | one task and one step is worked on, as memory and rows both say; DONE is complete; budgets and loop are bounded; a failed approach does not come back; every run ends | plans of 2 tasks: a chain of three steps, two independent tasks with a blocked environment, a task with a path no step covers; 3 attempts of a step, 4 of a task, every verdict, exceptions |
| `plan_blocked` | violation: the repair of a task that is BLOCKED ends in an exception | 2 and 3 attempts |
| `session_core` | a run has its sandbox to itself and rows are true of it; only verified work, on the baseline it was verified against, reaches the project, once; rows move as allowed, for the process that read them last; replies are true | 2 interchangeable processes, 2 runs; 2 starts with an exception; 2 starts with an edit; 3 starts without discards; crashes at every step |
| `runner` | slots are kept, output and code are true, a PASS is about the files and the image recorded with it, every call is answered | a verification (2 probes, a command that two criteria share, a file) and another command, 1 slot, 1 file and the image with 2 revisions each, a limit of 1 chunk, 2 chunks printed, codes 0, 1, 137 and (the other command) 0, 130, docker may start a container late or fail to kill it |
| `coder` | only allowed files change, ok means done, a failure leaves the files, budgets are kept | 4 paths (one below another, one outside the scope), 5 answers, 1 mistake, 3 observations, envelopes of 3 changes, a failure at every write |
| `planner` | stored plans can finish, are whole and own their files once; a revision keeps the work; questions are bounded; history is kept | 16 lists of up to 3 tasks with every defect and with declared steps, every graph of the model, 2 plans, 1 crash, 1 repair of a stage, 1 of a plan |
| `manifest` | a manifest is the difference of both trees at one moment; limits are exact | 5 paths, a directory with a file, text, binaries, links, a secret, a file above the limit, a refused name, two places that may be unreadable, 2 edits, 2 requests |
| `editor` | one backend at a time, a busy view waits for something; one outcome per request, none sent to a dying process; operations end | 3 clicks, a view created twice, 1 unasked death, 1 unreadable line, 1 missing interpreter |

Three entries, one per operation, meet every branch of publication and rollback,
and give a first, a middle and a last entry to crash at. Two applies let a second
transaction meet the leftovers of the first; two crashes allow one during a
recovery from another, and four (in `apply_crash`) repeat that. An exception, an
edit and a discard are each bounded by one: their combinations with crashes are
explored, several of the same kind are not. The bounds guard the environment's
actions only; the code's own steps are unbounded. `CHECK_DEADLOCK FALSE` is set
where the system may stop: nobody has to call `apply()` or `run()` again, and an
editor may be left alone.

For attempts, two files give a copy, a removal and a restoration a middle to stop
at, one file that a rollback must bring back and one that it must remove. Two
attempts, in one run or in two, let an older journal meet a newer one; two crashes
allow one inside the recovery from the other; two exceptions allow an attempt and
its recovery to fail both. `attempt_live` has no exceptions: a journal in
`RECOVERY_FAILED` without its checkpoint is never settled (`MCAttempt_recrash.cfg`),
and with a single crash that state is out of reach.

For a plan, two tasks are enough for a dependency to be blocked and for a second
task to be selected; with three attempts of a step and four of a task the two
limits are reached in either order. In `session_core` three starts are what it
takes for a recovery to meet a sandbox that an earlier recovery has left; with
discards as well (`Budgets` of 3 starts, no fault, versions up to 3) the graph has
11 million states, was checked once and shows no violation.
In `runner` there is one slot for the verification and another caller, so that a call is
refused or admitted at every place of another one. The two criteria that share a command
meet the cache; a file that is copied and looked at, and an image, are what a verdict can
be wrong about, and with two revisions each may change once, between any two steps.
Revisions only grow: something that is changed and put back between the two contexts
looks the same to the code, and is excluded. Only the other call prints, and it is made
while nothing changes (`MCNext`): what it does to the verification does not depend on
revisions. In `coder` three changes let the first be undone after the
third failed. In `planner` a second plan is either new or a revision of the first;
the crash may fall between any two transactions of either. In `manifest` two edits
can fall on both sides of any read; an edit puts nothing back that was there
earlier in the same build (`Restores`; see below). In `editor` three clicks are a
request, a cancel and a request after it.

## Fairness

In `ApplyTransaction`, `Fairness` is weak fairness of `ServiceStep` and of
`RecoverPending`. The first says that a process that holds the lock goes on
executing; its steps are local calls without waiting. The second says that the
program is started again while a journal is pending: the constructor of
`AgentRuntime` calls `recover_pending()` whenever one is. No fairness is assumed of
applies, edits or discards, and crashes are bounded, so liveness says what happens
after the last of them.

In `AttemptJournal`, `Fairness` is weak fairness of `Step` (a process inside
`begin()`, `finish()` or a recovery goes on) and of `Startup` (a program that is
down is started again; its constructor recovers before anything else). `Write`,
`StartRun`, `PrepareAttempt`, `FinishRun` and `Exit` are choices of the model or the user
and are not fair; the verdict (`Accept` or `Reject`) is, since the loop bounds the
coder's rounds.

In `PlanExecution`, weak fairness of `Controller`, the loop of one thread: it goes on
until a phase ends it. Which verdict it gets is not fair in any way: `RunEnds` holds
because every way round costs a budget.

In `CommandRunner`, and in `Verification` over it, weak fairness of the caller's thread and of
the readers of each call. Nothing is assumed of the command, docker or the caller's token: a command
that never ends and never prints is ended by the deadline. A caller waits for no
other call: without a free slot it is refused.

In `EditorBackend`, weak fairness of each process (it boots, reads, answers, obeys a
signal), of the event loops on both sides of the view, and of the second signal a
cancel sends after a while. Deaths, noise and clicks are not fair. `OperationsEnd`
excepts an unasked exit, a missing interpreter and an extension that is being
disposed of (`Excepted`); the first two are what `BackendComesBack` is about.

`AgentSession`, `CoderExecutor`, `Planner` and `PatchManifest` state no fairness and
their runs check safety only.

## Proofs

**Apply transaction.** For every manifest (any number of entries and directories,
any operations) and every bound:

- `TypeCorrect`: every variable keeps its type;
- `InductiveInvariant`: `IndInv` holds in every reachable state;
- `AppliesAreAtomic`, `SessionFollowsJournal`, `MutationsAreUndoable`, and together
  `ProjectsAreSafe`: the safety invariants of `apply_core`;
- `MutationsAreReserved`, `DecisionsAreFinal`, and together `JournalsLead`: its action
  properties;
- `ReportsAreDurable`: what a call reports is durable;
- `ServiceIsAtomic`: `ApplyTransaction` implements `AtomicApply`;
- `NewFilesAreNotClobbered`: `PublishNeverClobbersNewFile`;
- `CrashesAreRecovered`: `CrashesAloneAreRecovered`, assuming `~TornWrites` and `D = 0`.

The assumptions are `ManifestAssumption` and `BoundAssumption` in
`ApplyTransaction`. None of the invariants is inductive alone: that a commit is
over a published tree needs to know that the caller has just verified it
(`VerifiedOK`), that nothing the service touched lacks an intent (`IntentOK`), that
entries are published in manifest order (`PristineOK`), that plan and backups are
whole once APPLYING is recorded (`StagedOK`), and that the caller's place and the
journal row agree (`JournalOK`, `IdxOK`). `IndInv` is their conjunction with the
types, `AllOrNothing` and `AppliedIffCommitted`. Each conjunct is shown to survive
a step by a lemma with one case per action.

The two hypotheses of `CrashesAreRecovered` are what `apply_crash` is run with, and
neither can be left out: with torn writes `MCApply_torn.cfg` violates the property, with
a directory to create `MCApply_dir.cfg` does. `CrashInv` says that nothing but a
crash ever goes wrong: no check of a publication fails (`SmoothOK`), the version the
caller remembers is that of the row (`HeldOK`), a publication has reached everything
before its entry (`ReachOK`), and a rollback has restored everything after its
entry (`RestoreOK`).

**Attempt journal.** For every set of files, snapshot policy and baseline, in both
modes and for every bound:

- `TypeCorrect` and `InductiveInvariant`;
- `JournalAndAttemptsAgree`, `NoCheckpointIsLeftOver`, `AttemptsAreSequential`, and
  together `RecordsAlwaysAgree`: the record invariants of `attempt_core`;
- `DecisionsAreFinal`, `AcceptedWorkIsCommitted`, and together `DecisionsAlwaysHold`: its
  action properties;
- `FilesAreAlwaysSafe`: `FilesAreSafe`, what the workspace holds.

The assumptions are `WorkspaceAssumption` and `BoundAssumption` in `AttemptJournal`.
Here even the types are not inductive alone: that a restored file has content
needs to know that a process at a file step has an attempt (`TaskOK`). The rest
of `IndInv` says which journal state goes with each step of each task (`RowOK`),
which attempt status with each journal state (`StatusOK`: a failed preparation
closes its attempt and leaves the journal pending), that a journal is settled only
after its checkpoint is gone (`CheckpointOK`), that a run that was not started owns
nothing (`OwnerOK`), and that without exceptions only a missing checkpoint makes a
recovery fail (`QuietOK`).

`FilesInv` adds the files. A run that goes on is RUNNING (`RunOK`), a sandbox session
has one run (`SessionOK`), recovery leaves a run with its last journal (`LeftOK`), and
a checkpoint belongs to the only pending journal unless `hurt` (`SoleOK`, `HeldOK`).
`PhaseOK` then says, for each state of a journal and each place in a file step, what
the files are: without a checkpoint a journal that prepares or rolls back has a
workspace at the committed content, and one that finalizes a commit has exactly what
was decided.

**Command runner.** For every set of calls and probes, every number of slots and
every limit (`CallAssumption`, `OutputAssumption`, `DockerAssumption`):

- `SlotsAreReturned`: `SlotsAreKept`. `SlotInv` adds to the types that a client runs only
  in a call that holds a slot, so that the clients are among the holders; the count
  of slots is a fact about the cardinality of that set, and each action moves at
  most one call in or out of it.
- `OutputIsAlwaysTrue`: `OutputIsTrue`, assuming `~SlowReaders`: without it the code waits
  two seconds for a reader and then answers with what there is. Commands may end with
  any code of `0..255` (`CodeAssumption`). `KeptOK` says that
  what was drained is retained up to the limit, `ReasonOK` that a call is stopped for
  what happened, `AnswerOK` that a command whose code is OK has printed nothing that
  was not read.

**Verification.** For every set of files, every list of criteria, every number of other calls,
edits and builds (`ThingAssumption`, `CriteriaAssumption`):

- `VerificationRuns`: every behaviour of `VerifySpec` is one of `RunnerSpec`, so that the
  theorems above hold of it;
- `EvidenceIsAlwaysCurrent`: `EvidenceIsCurrent`, assuming `~SlowReaders`. Nothing that was
  recorded, copied or looked at is newer than the thing itself; what was recorded before the
  criteria is no newer than what they saw, and what is recorded after them no older. If
  both records agree, so does everything between them. That nothing older comes in is the
  cleared cache, that a command saw all of it is the code 0 of the runner, which no cause
  but the command itself can give (`OutputIsTrue`).

**Coder executor.** For every set of paths and scope, every budget, answer of the
model and fault, torn writes included (`LimitAssumption`):

- `ChangesAreAlwaysAllowed`, `OkAlwaysMeansDone`, `BudgetIsAlwaysKept`: the properties
  of `coder` of the same content. `CoderInv` carries what was validated through the
  writing: the paths of an accepted envelope differ, so an entry that is still to be
  written finds its file as it was before (`WriteOK`), and what is undone was an entry
  (`DoneOK`);
- `FailuresLeaveFiles`: `FailureLeavesFiles`, assuming `~TornWrites`: a write that
  empties a file and then fails is not undone, and TLC finds the property violated
  without the hypothesis. `LeavesInv` says that what lies above a file that was there
  is a directory (`PlaceOK`), which is never written to, so that everything written
  can be put back in turn (`UndoOK`).

**Agent session.** For any set of processes, any number of runs and every budget of
starts, faults and edits (`BoundAssumption`, `FaultAssumption`):

- `TypeCorrect`; `OneRun`: one run per session, and a verified row is bound to its
  manifest; `RowsLegal` and `OnlyVerifiedApplied`: the action properties of `session_core`;
- `RowsAlwaysTrue` and `RepliesAlwaysTrue`: `RowsAreTrue` and `RepliesAreTrue`, assuming
  `~ResetFaults`, as `session_core` does.

A process in a run owns its row: its version is that of the row, no other process is
in a run of it, and one that is stale never owns the row again, because versions only
grow (`WorkOK`, `Sole`). A reset never owns a row that is RUNNING, since the statuses
it may leave exclude it. An open attempt is the running run's (`AttemptOK`), and a
process that has opened none works in a sandbox without one (`BetweenOK`). For the
files, `FilesInv` adds that a process that has reset a sandbox and still owns its row
finds it as the reset left it. The hypothesis is needed: of two concurrent resets one
may fail after the other has finished, and put the dirty workspace it kept back under
a CLEAN row, 27 steps into a run of TLC. `RepliesAreTrue` has the same exception for a
`trampled` sandbox as `CleanIsBaseline` (below): with three starts the recovery of an
open attempt can refill the sandbox in the middle of a reset, which only the proof
brought to light.

**Plan execution.** For every set of tasks, every draft that `DraftAssumption` admits,
every verdict and every limit (`BudgetAssumption`):

- `TypeCorrect`, `RowsAlwaysAgree`, `DoneIsAlwaysComplete`, `BudgetsAreAlwaysKept`,
  `NoApproachIsRepeated`: all of the safety that `plan_core` checks.

`Core` has the types, that the rows are what the loop remembers (`RunOK`), that tasks
and steps that are not worked on are settled or untouched (`RestOK`), and how the
steps of a task follow one another (`StepsOK`). `BudgetOK` says that every failed
attempt is charged or about to be (`Due`). `IterationsOK` accounts for the loop: an
iteration has started a task, is one of two for a step that is DONE or one of three
for a repair that is charged, plus what the present phase is ahead (`Ahead`). The
bound on the loop follows by arithmetic.

**Planner.** For every list of components, every graph the model may propose, both
budgets and a crash between any two transactions (`ComponentAssumption`,
`RepairAssumption`, `ModelAssumption`, and `NameAssumption`, `CountAssumption` of
`TaskGraph`):

- `PlannerIsCorrect`: `PlannerInv`, what every transaction that is over has left in
  the rows;
- `QuestionsAreAlwaysBounded`, `StoredIsAlwaysAPlan`, `RevisionsKeepWork`,
  `StoredPlansCanAlwaysFinish`, `HistoryIsAlwaysKept`: the properties of `planner`;
- `AcyclicGraphsFinish`: the scheduler gets every task of an acyclic graph done.

In `PlannerInv`, `RowsOK` says that a row is an acyclic graph over its tasks, whose
files have one owner and whose steps are not there yet or exactly those of the task
(`Shaped`, `Sound`); `JobOK` that the request works on the last row, which replaces an
earlier one; `StoredOK` and `CarryOK` what is in the rows after each transaction;
`CountsOK` how many answers each stage has had. `AcyclicGraphsFinish` needs that
`Closure`, which takes as many steps as there are tasks, is closed
(`ClosureIsClosed`), that some task left has all its dependencies done
(`SomeTaskIsNext`, by a closure of least size), and that each round then does one
more. The scheduler's part is the operators of `TaskScheduler` themselves.

**Patch manifest.** For every order of paths, tree, content, limit and number of edits and
requests (`TreeAssumption`, `PlaceAssumption`, `SizeAssumption`):

- `ManifestsAreOfOneMoment`: `ManifestOfOneMoment`, assuming `~Restores` as `manifest` does;
  `MCManifest_restore.cfg` violates the property without it;
- `LimitsAreAlwaysExact`: `LimitsAreExact`: a build of trees nobody touches fails only for a
  limit that is exceeded, two paths of one key, a refused name or an unreadable place.

`ShapeOK` has the types, `WalkOK` what is listed, opened and read on the way: the paths
that are decided are those that are neither listed nor below one that is. `WitnessOK`
is about time. What the first inventory of a tree says of a path was so at the moment the
inventory of the workspace ended, or it has gone since (`Left`), and so it stays. A value that has gone does not come back, because
no edit puts back what `seen` has (`PutsNothingBack`); then the second inventory of that
tree says another thing of the path, and the comparison of the two refuses the
build. When it does not, both trees were as the manifest says when the first
two inventories had ended.

The limits take five more parts. `CountsOK` relates `job`, `stored` and `edits`;
`WithinOK` says that whatever was read, kept or stored is within the limits: a file
adds exactly its size to the sum of an inventory, as `Visited` counts it. `GuardOK`
has every directory above what is listed opened. `QuietOK` is the other direction:
while nobody edits, what an inventory says of the paths it has decided is what the tree
holds, so a limit that refuses the build is exceeded by the tree itself; `StoredOK`
says it of a manifest whose trees were never edited, which a preview then calls
current. `Total` and `PatchBytes` are folds over sets; that such a sum exists
(`SumExists`, by a smallest set without one), that it is the fold (`SumIsAFold`) and
that it grows by each element (`SumSteps`, `SumGrows`) are lemmas of their own.

**Editor backend.** For any number of clicks, views, deaths, unreadable lines and missing
interpreters (`BoundAssumption`):

- `TypeCorrect`, `EditorIsAlwaysTrue`, `RepliesAreAlwaysCurrent`: the safety that
  `editor` checks.

Whoever lives is the client's child (`ChildOK`); "ready" is printed once (`ReadyOK`)
and nothing is waited for before it (`WaitingOK`); a child that was sent a signal gets
no request (`KilledOK`); the last message to the view decides whether it is busy
(`ViewOK`); nothing is told before it is over (`ToldOK`). That the numbers of requests
and processes stay within the finite sets the instance gives them is model-checked
only.

### What is not proved

Every invariant and action property of a passing run is stated by a theorem, some under
the hypotheses named above. Outside the prover's
reach is liveness (`ApplySettles`, `JournalIsSettled`, `RunEnds`, `CallsAreAnswered`,
`OperationsEnd`), which needs fairness and `ENABLED`. The library's induction theorems
take an operator as a parameter and cannot be used either; the inductions over natural
numbers that the proofs need (`Closure` and `Rounds` of the planner, the walk over the
paths of a task in `PlanExecution`) are done by the least number for which the claim
would fail (`LeastElement`, `SetInduction`).

## What the runs found

Each entry is one property, found violated by what the code does. `plan_blocked` is
a run of the project; the others are repeated by hand with the configuration
that is named (`tlc -config MCApply_torn.cfg MCApply`, and so on, `MCEditor_open.cfg` with
`EditorBackend`; where a property is
named as well, the configuration gets that property alone).

| Run | What the code does | What the repository says |
|---|---|---|
| `plan_blocked` | `block_task` leaves a task BLOCKED; its repair retries a step, and when the step passes the verifier raises, because the task is not IN_PROGRESS (`verifier.py:251`) | `docs/superpowers/specs/2026-09-14-persistentcoder-mvp-design.md:81`: "Verification either accepts work, produces structured repair context, requests a bounded structural replan, or terminates as failed/blocked." |
| `MCPlan_reopen.cfg` | the repair of a task that was rejected as a whole reopens its last step, which was DONE (`controller.py:624`) | `docs/superpowers/plans/2026-09-14-qwen-planner-verification-repair.md:51`: "Ensure Task failure repairs Task rather than reopening the last Step" |
| `MCApply_torn.cfg` | a `plan.json` left partial by a kill makes the recovery of a PREPARING journal raise: `RECOVERY_FAILED` for ever, with an untouched source (`service.py:934`) | `service.py:922`: "PREPARING never authorizes a source mutation. Partial or absent backups are harmless only if all before bytes exist." |
| `MCApply_dir.cfg` | a kill between `mkdir` and `d<n>.created` leaves a directory that no recovery may remove; `d<n>.intent` is never read (`service.py:787`) | `tests/apply/test_apply_service.py:183` asserts that a restart recovers each durable state |
| `MCApply_discard.cfg` | a discard or a new session during an apply takes the session away from it; source and journal stay as they are (`runtime.py:865`) | `docs/superpowers/plans/2026-09-15-immutable-manifest-transactional-apply.md:20`: "must leave or restore the complete pre-apply source tree" |
| `MCAttempt_torn.cfg` | a checkpoint is copied into a directory that has its final name; recovery restores from whatever part was copied (`workspace.py:492`) | `tests/security/test_crash_recovery.py:96`: "The sandbox is back at the last committed checkpoint." |
| `MCAttempt_recrash.cfg` | a crash between the removal of the checkpoint and `complete_recovery` makes every later start fail (`durable_attempts.py:309`) | `docs/superpowers/plans/2026-09-15-durable-state-authority.md:18`: "Recovery is project-scoped and idempotent." |
| `MCAttempt_stale.cfg` | `start_run` ignores pending journals; a later recovery of an old one rolls back work committed since (`unit_of_work.py:273`) | `runtime.py:645`: back to the "last committed checkpoint" |
| `MCAttempt_discard.cfg` | a discard deletes the checkpoint of a pending journal; every later start fails (`workspace.py:417`) | `docs/superpowers/specs/2026-09-14-persistentcoder-mvp-design.md:84`: "Apply or Discard establishes a new clean baseline." |
| `MCSession_reset.cfg` | a reset that fails to put the kept trees back leaves a sandbox without baseline or workspace (`workspace.py:422`) | |
| `MCSession_idle.cfg` | after a crash inside a run the row stays RUNNING: "Project is ready" is answered for a session that can neither run nor be discarded (`runtime.py:1020`) | |
| `MCSession_stale.cfg` | a process discards by its own memory of a session; the workspace that another process has verified since is rebuilt before its row is compared (`runtime.py:871`) | |
| `MCSession_plan.cfg` | the last durable state remembered from an earlier run ends its plan once more when the current run fails early (`runtime.py:1057`) | |
| `MCCoder_undo.cfg` | a deletion of `a` is not undone once `a/b` was written (`executor.py:862`) | |
| `MCPlanner_open.cfg` (`RepairIsTried`) | only one class of error is repaired: other invalid drafts end the request with repairs left (`planner/agent.py:257`) | |
| `MCPlanner_open.cfg` (`RevisionCanFinish`) | a task whose key is invalidated is SUPERSEDED in the revision too; what depends on it is BLOCKED for ever (`store.py:941`) | |
| `MCPlanner_open.cfg` (`OnePlanIsActive`) | a crash between the transactions of a replan leaves two ACTIVE plans (`store.py:1271`) | |
| `MCManifest_restore.cfg` | six edits that change files and put them back, between the reads, give a manifest of trees that never were together (`builder.py:240`); the comparison holds digests, so the code cannot tell | |
| `MCRunner_open.cfg` (`NothingOutlivesItsCall`) | `docker kill` comes before the container has started: the command runs on after its call was answered (`runner.py:763`) | |
| `MCRunner_open.cfg` (`PassIsAboutNow`) | after the verdict nothing compares the workspace with the context again; the manifest carries the context's digest, not a new one (`runtime.py:945`) | |
| `MCEditor_open.cfg` (`StopIsOffered`) | a click on an older result while an operation runs is refused with `runFailed`, which sets the view idle: the stop button is gone (`PersistentCoderViewProvider.ts:252`) | `docs/plans/2026-09-21-usable-end-to-end-agent.md:163` |
| `MCEditor_open.cfg` (`BackendComesBack`) | after an exit nobody asked for, or an unreadable line, nothing starts the backend again (`PersistentCoderProcess.ts:341`) | |

(`PreparationIsHarmless` has a second counterexample, with one exception instead of a
torn file: the first failure of that recovery records `RECOVERY_FAILED`, whose
recovery demands a `plan.json` that was never written, `service.py:935`.)

Three checked properties name an exception that the code forces. `CleanIsBaseline`
holds unless a sandbox was reset under an open attempt (`trampled`): a process that
starts rebases a session it has read as APPLIED (`runtime.py:302`) before the version
of the row is compared; another process may have settled the session and work in
it by then, and what is left is neither the baseline nor its attempt; `RepliesAreTrue` has the same
exception. `NoFailedApproachAgain` excepts the
structural replan of a task all of whose paths were accepted already: it falls
through to a retry with the approach that failed. 
## Not modelled

- **Memory**: recall only advises the model; each write is one SQLite
  transaction, and nothing the other modules promise reads it.
- **Context builder and selector**: sequential selection and cutting of text within
  a budget, without state.
- **Policy guards and paths**: pure functions over text and paths; their verdicts
  are inputs here (`Scope`, `Secret`, `Key`, a refused tool).
- **Dependency environments**: parsing of lock files and construction of images; the
  image is an input of `CommandRunner` and changes at any moment in `Verification`.
- **Schema migrations**: ordered, idempotent DDL, each version in one transaction.
- **CLI, LLM client, training tools**: input and output, inference, and offline
  preparation of data.

Of the components listed as partly modelled, what is missing is named in
`PROJECT.json`: operations nothing calls, columns nothing reads back, which files
a snapshot takes, and what a criterion asks of a file or a command.

## Plan

What would be modelled and proved next: `AgentSession` over the steps of `AttemptJournal`
instead of one step per attempt, and a refinement between the two.
