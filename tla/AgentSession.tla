---------------------------- MODULE AgentSession ----------------------------
(***************************************************************************)
(* AgentRuntime and the VS Code backend in front of it: processes that     *)
(* share the SQLite rows of sessions and runs and the sandboxes of one     *)
(* project. Every process keeps a copy of its session's row; a row is      *)
(* written only with the version the copy was read with.                   *)
(*                                                                         *)
(* What happens inside an attempt is AttemptJournal, inside an apply       *)
(* ApplyTransaction, inside the loop PlanExecution. Here an attempt opens, *)
(* writes and closes, an apply commits or is refused. A change of a run to *)
(* its sandbox is named by the run; 0 is the baseline.                     *)
(***************************************************************************)
EXTENDS Integers, Sequences, FiniteSets

CONSTANTS
  Procs,        \* processes on the project: a backend, a terminal
  MaxRuns,
  Budgets,      \* what may happen: starts, faults, edits, and the version of a row above which
                \* nothing more is discarded
  ResetFaults   \* may the copy of the project into a sandbox fail?

ASSUME BoundAssumption ==
  MaxRuns \in Nat /\ Budgets \subseteq [starts : Nat, faults : Nat, edits : Nat, version : Nat]
ASSUME FaultAssumption == ResetFaults \in BOOLEAN

VARIABLES
  rows,       \* agent_sessions, in the order of rowid
  runs,       \* agent_runs, each with the status of its plan and the baseline of its manifest
  boxes,      \* sandboxes: baseline, workspace, run of the open attempt and its checkpoint
  proc,       \* what each process is doing and remembers
  source,     \* version of the user's project
  published,  \* runs whose work was applied to it, in order
  trampled,   \* history: a sandbox was reset while an attempt was open in it
  budget      \* what is left of it

files == <<boxes, source, published, trampled>>
vars  == <<rows, runs, files, proc, budget>>

Gone  == -1    \* a directory that is not there
SessionStatuses == {"CLEAN", "RUNNING", "DIRTY_VERIFIED", "DIRTY_FAILED", "APPLIED", "DISCARDED"}
RunStatuses     == {"RUNNING", "DONE", "FAILED", "INTERRUPTED"}
Unsettled       == {"DIRTY_VERIFIED", "DIRTY_FAILED", "APPLIED"}
ALLOWED_TRANSITIONS ==
  {<<"CLEAN", "RUNNING">>, <<"CLEAN", "DISCARDED">>, <<"RUNNING", "CLEAN">>,
   <<"RUNNING", "DIRTY_VERIFIED">>, <<"RUNNING", "DIRTY_FAILED">>,
   <<"DIRTY_VERIFIED", "APPLIED">>, <<"DIRTY_VERIFIED", "DISCARDED">>,
   <<"DIRTY_FAILED", "DISCARDED">>, <<"APPLIED", "CLEAN">>, <<"DISCARDED", "CLEAN">>}

NewRow(b) == [box |-> b, status |-> "CLEAN", version |-> 0, run |-> 0, manifest |-> 0]
NewBox    == [base |-> source, work |-> 0, open |-> 0, saved |-> Gone]
NoTrees   == [base |-> Gone, work |-> Gone, new |-> Gone]

\* A process that is not running, and what it forgets when it stops.
Off == [pc |-> "off", todo |-> {}, box |-> 0, row |-> 0, status |-> "CLEAN", version |-> 0,
        manifest |-> 0, run |-> 0, attempt |-> FALSE, last |-> 0, final |-> 0,
        outcome |-> "none", auto |-> FALSE, stage |-> 0, kept |-> NoTrees, why |-> "none",
        left |-> <<>>, told |-> "none"]

Init ==
  /\ rows = <<>> /\ runs = <<>> /\ boxes = <<>> /\ source = 0 /\ published = <<>>
  /\ proc = [p \in Procs |-> Off]
  /\ trampled = FALSE /\ budget \in Budgets

TypeOK ==
  /\ rows \in Seq([box : DOMAIN boxes, status : SessionStatuses, version : Nat,
                   run : {0} \cup DOMAIN runs, manifest : {0} \cup DOMAIN runs])
  /\ runs \in Seq([status : RunStatuses, box : DOMAIN boxes, base : Nat \cup {Gone},
                   plan : {"none", "ACTIVE", "DONE", "FAILED"}])
  /\ boxes \in Seq([base : Nat \cup {Gone}, work : {Gone, 0} \cup DOMAIN runs,
                    open : {0} \cup DOMAIN runs, saved : {Gone, 0} \cup DOMAIN runs])
  /\ \A p \in Procs :
       /\ proc[p].pc \in {"off", "recover", "idle", "start", "loop", "finish", "apply", "reset", "save"}
       /\ proc[p].status \in SessionStatuses /\ proc[p].left \in Seq(SessionStatuses)
       /\ proc[p].told \in {"none", "idle", "verified", "attention", "failed", "applied",
                            "discarded", "error"}
       /\ proc[p].pc \notin {"off", "recover"} => proc[p].row \in DOMAIN rows
  /\ source \in Nat /\ published \in Seq(DOMAIN runs) /\ trampled \in BOOLEAN

Spend(what) == budget[what] > 0 /\ budget' = [budget EXCEPT ![what] = @ - 1]

Whole(b)   == boxes[b].base # Gone /\ boxes[b].work # Gone
Row(p)     == rows[proc[p].row]
Goto(p, changed)  == proc' = [proc EXCEPT ![p] = changed]
Reply(p, message) == Goto(p, [proc[p] EXCEPT !.pc = "idle", !.told = message, !.outcome = "none",
                                             !.why = "none", !.left = <<>>, !.auto = FALSE])

\* Mutant: a row is written whatever its version.
Owns_Anyway(p) == TRUE

\* WHERE id = ? AND version = ?
Owns(p) == Row(p).version = proc[p].version

\* SET ..., version = version + 1
Update(p, row) == rows' = [rows EXCEPT ![proc[p].row] = [row EXCEPT !.version = Row(p).version + 1]]

(***************************************************************************)
(* Start of a process                                                      *)
(***************************************************************************)
\* recover_interrupted(): every RUNNING run of the project.
Interrupted == [r \in DOMAIN runs |-> IF runs[r].status = "RUNNING"
                                      THEN [runs[r] EXCEPT !.status = "INTERRUPTED"] ELSE runs[r]]

Start(p) ==
  /\ proc[p].pc = "off" /\ Spend("starts")
  /\ runs' = Interrupted
  /\ Goto(p, [Off EXCEPT !.pc = "recover",
                !.todo = {r \in DOMAIN runs : runs[r].status = "RUNNING"}
                           \cup ({boxes[b].open : b \in DOMAIN boxes} \ {0})])
  /\ UNCHANGED <<rows, files>>

\* A process that stops as it starts: an exception of __init__.
StartFails(p) == Goto(p, Off) /\ UNCHANGED <<rows, runs, files, budget>>

RolledBack(box) == [box EXCEPT !.work = box.saved, !.open = 0, !.saved = Gone]
Restorable(b)   == boxes[b].saved # Gone /\ boxes[b].work # Gone

\* recover_sandboxes(), one run: the attempt that is open is rolled back, and the first
\* sandbox in which that was done is the one to go on with.
RecoverRun(p) ==
  /\ proc[p].pc = "recover"
  /\ \E r \in proc[p].todo :
       LET b == runs[r].box
           pending == boxes[b].open = r
       IN  /\ \A q \in proc[p].todo : r <= q
           /\ pending => Restorable(b)
           /\ boxes' = IF pending THEN [boxes EXCEPT ![b] = RolledBack(boxes[b])] ELSE boxes
           /\ Goto(p, [proc[p] EXCEPT !.todo = @ \ {r},
                                      !.box = IF pending /\ @ = 0 THEN b ELSE @])
  /\ UNCHANGED <<rows, runs, source, published, trampled, budget>>

\* AttemptRecoveryError: the sandbox or the checkpoint of a pending journal is not there.
RecoverFails(p) ==
  /\ proc[p].pc = "recover"
  /\ \E r \in proc[p].todo : boxes[runs[r].box].open = r /\ ~Restorable(runs[r].box)
  /\ StartFails(p)

UnsettledRows == {i \in DOMAIN rows : rows[i].status \in Unsettled}
\* open_session() finds the workspace.
Openable      == {i \in UnsettledRows : boxes[rows[i].box].work # Gone}

\* Mutant: the session of the sandbox is not looked up.
Remembers_NoRow(p, i) == [proc[p] EXCEPT !.box = rows'[i].box]

Remembers(p, i) == [proc[p] EXCEPT !.row = i, !.box = rows'[i].box, !.status = rows'[i].status,
                                   !.version = rows'[i].version, !.manifest = rows'[i].manifest]

\* The sandbox that was rolled back, else those of the unsettled sessions.
Found(p) == IF proc[p].box # 0 THEN {k \in DOMAIN rows : rows[k].box = proc[p].box} ELSE Openable

\* The newest session that was found, else a new one. A session that was applied is rebased.
Open(p) ==
  /\ proc[p].pc = "recover" /\ proc[p].todo = {}
  /\ IF Found(p) # {} THEN UNCHANGED <<rows, boxes>>
     ELSE /\ UnsettledRows = {}
          /\ boxes' = Append(boxes, NewBox) /\ rows' = Append(rows, NewRow(Len(boxes) + 1))
  /\ \E i \in DOMAIN rows' :
       LET me == Remembers(p, i)
       IN  /\ IF Found(p) # {} THEN i \in Found(p) /\ \A k \in Found(p) : k <= i ELSE i = Len(rows')
           /\ Goto(p, IF me.status = "APPLIED"
                      THEN [me EXCEPT !.pc = "reset", !.stage = 1, !.why = "startup", !.left = <<"CLEAN">>]
                      ELSE [me EXCEPT !.pc = "idle"])
  /\ UNCHANGED <<runs, source, published, trampled, budget>>

\* DirtySessionError: dirty session workspace is unavailable
OpenFails(p) ==
  /\ proc[p].pc = "recover" /\ proc[p].todo = {} /\ proc[p].box = 0
  /\ UnsettledRows # {} /\ Openable = {} /\ StartFails(p)

(***************************************************************************)
(* Run                                                                     *)
(***************************************************************************)
Claimable(p) == Owns(p) /\ Row(p).status = "CLEAN"

\* run(): refused unless the remembered status is CLEAN, then start_run().
Claim(p) ==
  /\ proc[p].pc = "idle" /\ proc[p].status = "CLEAN" /\ Claimable(p) /\ Len(runs) < MaxRuns
  /\ LET r == Len(runs) + 1
     IN  /\ runs' = Append(runs, [status |-> "RUNNING", box |-> proc[p].box, base |-> Gone,
                                  plan |-> "none"])
         /\ Update(p, [Row(p) EXCEPT !.status = "RUNNING", !.run = r])
         /\ Goto(p, [proc[p] EXCEPT !.pc = "start", !.run = r, !.status = "RUNNING",
                                    !.version = @ + 1, !.told = "none"])
  /\ UNCHANGED <<files, budget>>

Refuse(p) ==
  /\ proc[p].pc = "idle" /\ ~(proc[p].status = "CLEAN" /\ Claimable(p))
  /\ Reply(p, "error") /\ UNCHANGED <<rows, runs, files, budget>>

Run(p)  == runs[proc[p].run]
Box(p)  == boxes[proc[p].box]
Live(p) == Run(p).status = "RUNNING"
Working(p) == proc[p].pc \in {"start", "loop"}

\* The first state of the loop is persisted.
Begin(p) ==
  /\ proc[p].pc = "start" /\ Live(p)
  /\ Goto(p, [proc[p] EXCEPT !.pc = "loop", !.last = 0])
  /\ UNCHANGED <<rows, runs, files, budget>>

\* The plan is stored, and the state that names it is persisted.
PlanStored(p) ==
  /\ proc[p].pc = "loop" /\ Run(p).plan = "none"
  /\ runs' = [runs EXCEPT ![proc[p].run].plan = "ACTIVE"]
  /\ Goto(p, [proc[p] EXCEPT !.last = IF Live(p) THEN proc[p].run ELSE @])
  /\ UNCHANGED <<rows, files, budget>>

OpenAttempt(p) ==
  /\ proc[p].pc = "loop" /\ Run(p).plan = "ACTIVE" /\ ~proc[p].attempt
  /\ Live(p) /\ Box(p).work # Gone /\ Box(p).open = 0
  /\ boxes' = [boxes EXCEPT ![proc[p].box] = [@ EXCEPT !.open = proc[p].run, !.saved = Box(p).work]]
  /\ Goto(p, [proc[p] EXCEPT !.attempt = TRUE])
  /\ UNCHANGED <<rows, runs, source, published, trampled, budget>>

\* The coder writes; nothing of SQLite is looked at.
Write(p) ==
  /\ proc[p].pc = "loop" /\ proc[p].attempt /\ Box(p).work # Gone
  /\ boxes' = [boxes EXCEPT ![proc[p].box].work = proc[p].run]
  /\ UNCHANGED <<rows, runs, source, published, trampled, proc, budget>>

CloseAttempt(p) ==
  /\ proc[p].pc = "loop" /\ proc[p].attempt /\ Live(p) /\ Box(p).open = proc[p].run
  /\ \/ boxes' = [boxes EXCEPT ![proc[p].box] = [@ EXCEPT !.open = 0, !.saved = Gone]]
     \/ /\ Restorable(proc[p].box)
        /\ boxes' = [boxes EXCEPT ![proc[p].box] = RolledBack(@)]
  /\ Goto(p, [proc[p] EXCEPT !.attempt = FALSE])
  /\ UNCHANGED <<rows, runs, source, published, trampled, budget>>

\* The loop returns, DONE or FAILED.
Returns(p) ==
  /\ proc[p].pc = "loop" /\ Run(p).plan = "ACTIVE" /\ ~proc[p].attempt
  /\ \E outcome \in {"DONE", "FAILED"} :
       Goto(p, [proc[p] EXCEPT !.pc = "finish", !.outcome = outcome, !.final = proc[p].run])
  /\ UNCHANGED <<rows, runs, files, budget>>

\* recover_pending() of the run.
AfterRaise(p) == IF Box(p).open = proc[p].run /\ Restorable(proc[p].box)
                 THEN RolledBack(Box(p)) ELSE Box(p)

\* Something in the loop raises: a fault, the run is no longer RUNNING, its files are gone. The
\* run is ended with the state persisted last.
Raises(p) ==
  /\ Working(p)
  /\ IF Live(p) /\ Whole(proc[p].box) THEN Spend("faults")
     ELSE UNCHANGED budget
  /\ boxes' = [boxes EXCEPT ![proc[p].box] = AfterRaise(p)]
  /\ Goto(p, [proc[p] EXCEPT !.pc = "finish", !.outcome = "INTERRUPTED", !.attempt = FALSE,
                             !.final = proc[p].last])
  /\ UNCHANGED <<rows, runs, source, published, trampled>>

(***************************************************************************)
(* End of a run                                                            *)
(***************************************************************************)
\* finish_terminal() writes one transaction: changed_files() has read both trees, the run is
\* RUNNING and the row RUNNING in the version this process knows.
Finishable(p) == Live(p) /\ Owns(p) /\ Row(p).status = "RUNNING" /\ Whole(proc[p].box)

\* Mutant: a run that changed files and failed leaves its session CLEAN.
StatusAfterRun_FailedIsClean(p) ==
  IF Box(p).work # 0 /\ proc[p].outcome = "DONE" THEN "DIRTY_VERIFIED" ELSE "CLEAN"

\* Mutant: the outcome of the run is not looked at.
StatusAfterRun_Anyway(p) == IF Box(p).work = 0 THEN "CLEAN" ELSE "DIRTY_VERIFIED"

StatusAfterRun(p) == IF Box(p).work = 0 THEN "CLEAN"
                     ELSE IF proc[p].outcome = "DONE" THEN "DIRTY_VERIFIED" ELSE "DIRTY_FAILED"

\* state_to_result()
Result(p) == IF proc[p].outcome = "DONE" THEN "verified"
             ELSE IF proc[p].outcome = "FAILED" THEN "failed" ELSE "error"

PlanAfter(p) == IF proc[p].outcome = "DONE" THEN "DONE" ELSE "FAILED"

Finish(p) ==
  /\ proc[p].pc = "finish" /\ Finishable(p)
  /\ LET r      == proc[p].run
         status == StatusAfterRun(p)
         bound_ == IF status = "DIRTY_VERIFIED" THEN r ELSE Row(p).manifest
         ended  == [runs EXCEPT ![r].status = proc[p].outcome,
                                ![r].base = IF status = "DIRTY_VERIFIED" THEN Box(p).base ELSE @]
     IN  /\ runs' = IF proc[p].final = 0 THEN ended
                    ELSE [ended EXCEPT ![proc[p].final].plan = PlanAfter(p)]
         /\ Update(p, [Row(p) EXCEPT !.status = status, !.run = 0, !.manifest = bound_])
         /\ \E auto \in IF status = "DIRTY_VERIFIED" THEN BOOLEAN ELSE {FALSE} :
              Goto(p, [proc[p] EXCEPT
                !.pc = IF auto THEN "apply" ELSE "idle", !.auto = auto, !.told = Result(p),
                !.status = status, !.version = @ + 1, !.manifest = bound_, !.run = 0,
                !.outcome = "none", !.final = 0])
  /\ UNCHANGED <<files, budget>>

\* The transaction is refused, or a fault: a DONE or FAILED run is ended once more, as
\* INTERRUPTED; a second failure leaves its session RUNNING.
FinishFails(p) ==
  /\ proc[p].pc = "finish"
  /\ IF Finishable(p) THEN Spend("faults") ELSE UNCHANGED budget
  /\ IF proc[p].outcome = "INTERRUPTED" THEN Reply(p, "error")
     ELSE Goto(p, [proc[p] EXCEPT !.outcome = "INTERRUPTED"])
  /\ UNCHANGED <<rows, runs, files>>

(***************************************************************************)
(* Apply, discard, and the reset of a sandbox                              *)
(***************************************************************************)
\* patch_preview(): the manifest that is remembered is that of the files.
Previewed(p) == /\ proc[p].manifest # 0 /\ Whole(proc[p].box)
                /\ Box(p).work = proc[p].manifest /\ Box(p).base = runs[proc[p].manifest].base

\* Mutant: the files of the project are not compared.
Appliable_Anyway(p) ==
  Previewed(p) /\ Owns(p) /\ Row(p).status = "DIRTY_VERIFIED" /\ Row(p).manifest = proc[p].manifest

\* ApplyService: the session still owns the manifest, and the project is as its baseline was.
Appliable(p) == Appliable_Anyway(p) /\ source = runs[proc[p].manifest].base

ApplyAsked(p) == proc[p].pc = "apply" \/ (proc[p].pc = "idle" /\ ~proc[p].auto)

\* apply_patch() commits (ApplyTransaction) and rebases the sandbox.
Apply(p) ==
  /\ ApplyAsked(p) /\ Appliable(p)
  /\ Update(p, [Row(p) EXCEPT !.status = "APPLIED"])
  /\ source' = source + 1 /\ published' = Append(published, proc[p].manifest)
  /\ Goto(p, [proc[p] EXCEPT !.pc = "reset", !.stage = 1, !.why = "apply", !.left = <<"CLEAN">>,
                             !.status = "APPLIED", !.version = @ + 1,
                             !.told = IF proc[p].auto THEN @ ELSE "none"])
  /\ UNCHANGED <<runs, boxes, trampled, budget>>

ApplyRefused(p) ==
  /\ ApplyAsked(p) /\ ~Appliable(p) /\ Reply(p, "attention")
  /\ UNCHANGED <<rows, runs, files, budget>>

Discardable(p) == proc[p].status # "RUNNING"

\* discard_session(): the files first, the row after.
Discard(p) ==
  /\ proc[p].pc = "idle" /\ Discardable(p) /\ Row(p).version < budget.version
  /\ Goto(p, [proc[p] EXCEPT !.pc = "reset", !.stage = 1, !.why = "discard", !.told = "none",
       !.left = CASE proc[p].status = "APPLIED"   -> <<"CLEAN", "DISCARDED", "CLEAN">>
                  [] proc[p].status = "DISCARDED" -> <<"CLEAN">>
                  [] OTHER                        -> <<"DISCARDED", "CLEAN">>])
  /\ UNCHANGED <<rows, runs, files, budget>>

DiscardRefused(p) ==
  /\ proc[p].pc = "idle" /\ ~Discardable(p) /\ Reply(p, "error")
  /\ UNCHANGED <<rows, runs, files, budget>>

AtStage(p, n) == proc[p].pc = "reset" /\ proc[p].stage = n
Tramples(p)  == trampled' = (trampled \/ Box(p).open # 0)
\* A step of the reset changes the sandbox and what the process holds of it.
Reset(p, box, kept) ==
  /\ boxes' = [boxes EXCEPT ![proc[p].box] = box]
  /\ Goto(p, [proc[p] EXCEPT !.stage = @ + 1, !.kept = kept]) /\ Tramples(p)
  /\ UNCHANGED <<rows, runs, source, published, budget>>

\* _reset_from_source()
Copy(p)     == AtStage(p, 1) /\ Reset(p, Box(p), [NoTrees EXCEPT !.new = source])
KeepBase(p) == /\ AtStage(p, 2) /\ Box(p).base # Gone
               /\ Reset(p, [Box(p) EXCEPT !.base = Gone], [proc[p].kept EXCEPT !.base = Box(p).base])
KeepWork(p) == /\ AtStage(p, 3) /\ Box(p).work # Gone
               /\ Reset(p, [Box(p) EXCEPT !.work = Gone], [proc[p].kept EXCEPT !.work = Box(p).work])
PutBase(p)  == AtStage(p, 4) /\ Reset(p, [Box(p) EXCEPT !.base = proc[p].kept.new], proc[p].kept)
PutWork(p)  == AtStage(p, 5) /\ Reset(p, [Box(p) EXCEPT !.work = 0], proc[p].kept)
ResetEnds(p) ==
  /\ AtStage(p, 6)
  /\ boxes' = [boxes EXCEPT ![proc[p].box].saved = Gone]
  /\ Goto(p, [proc[p] EXCEPT !.pc = "save", !.stage = 0, !.kept = NoTrees]) /\ Tramples(p)
  /\ UNCHANGED <<rows, runs, source, published, budget>>

\* An exception of the reset or of the row after it. The result of a run that was to be
\* applied keeps what the run was told.
Troubled(p) == IF proc[p].why = "startup" THEN Off
               ELSE [proc[p] EXCEPT !.pc = "idle", !.stage = 0, !.kept = NoTrees, !.why = "none",
                                    !.left = <<>>, !.auto = FALSE,
                                    !.told = IF proc[p].auto THEN @ ELSE "error"]

\* SandboxResetError: the new trees go, and what was moved away comes back.
ResetFails(p) ==
  /\ proc[p].pc = "reset"
  /\ IF (AtStage(p, 2) /\ Box(p).base = Gone) \/ (AtStage(p, 3) /\ Box(p).work = Gone)
     THEN UNCHANGED budget
     ELSE ResetFaults /\ Spend("faults")
  /\ boxes' = [boxes EXCEPT ![proc[p].box] = [@ EXCEPT !.base = proc[p].kept.base,
                                                       !.work = proc[p].kept.work]]
  /\ Goto(p, Troubled(p)) /\ Tramples(p)
  /\ UNCHANGED <<rows, runs, source, published>>

SavedAnswer(p) == CASE proc[p].why = "apply"   -> "applied"
                    [] proc[p].why = "discard" -> "discarded"
                    [] OTHER                   -> "none"

\* session_store.update(): the next status of the row.
Save(p) ==
  /\ proc[p].pc = "save" /\ Owns(p)
  /\ LET status   == Head(proc[p].left)
         last     == Len(proc[p].left) = 1
         manifest == IF last THEN 0 ELSE proc[p].manifest
     IN  /\ Update(p, [Row(p) EXCEPT !.status = status, !.manifest = manifest,
                                     !.run = IF last /\ proc[p].why = "discard" THEN 0 ELSE @])
         /\ Goto(p, [proc[p] EXCEPT
              !.pc = IF last THEN "idle" ELSE @, !.status = status, !.version = @ + 1,
              !.manifest = manifest, !.left = Tail(@),
              !.why = IF last THEN "none" ELSE @, !.auto = @ /\ ~last,
              !.told = IF last THEN SavedAnswer(p) ELSE @])
  /\ UNCHANGED <<runs, files, budget>>

\* The row has another version: what is remembered is already the next status.
SaveConflicts(p) ==
  /\ proc[p].pc = "save" /\ ~Owns(p)
  /\ Goto(p, IF proc[p].why = "startup" THEN Off
             ELSE [Troubled(p) EXCEPT !.status = Head(proc[p].left),
                                      !.manifest = IF Len(proc[p].left) = 1 THEN 0 ELSE @])
  /\ UNCHANGED <<rows, runs, files, budget>>

\* inspect(): by what is remembered; the first request that finds the project ready says so.
Inspect(p) ==
  /\ proc[p].pc = "idle"
  /\ Reply(p, CASE proc[p].status = "DIRTY_VERIFIED" /\ Previewed(p)  -> "verified"
                [] proc[p].status = "DIRTY_VERIFIED" /\ ~Previewed(p) -> "attention"
                [] proc[p].status = "DIRTY_FAILED"                    -> "attention"
                [] OTHER                                             -> "idle")
  /\ UNCHANGED <<rows, runs, files, budget>>

Shutdown(p) == proc[p].pc = "idle" /\ Goto(p, Off) /\ UNCHANGED <<rows, runs, files, budget>>

\* The process dies at work; a process that has nothing to do loses nothing by it.
Crash(p) ==
  /\ proc[p].pc \notin {"off", "idle"} /\ Goto(p, Off) /\ UNCHANGED <<rows, runs, files, budget>>

\* The user edits the project.
Edit ==
  /\ Spend("edits") /\ source' = source + 1
  /\ UNCHANGED <<rows, runs, boxes, proc, published, trampled>>

Startup(p)  == RecoverRun(p) \/ RecoverFails(p) \/ Open(p) \/ OpenFails(p)
InRun(p)    == \/ Begin(p) \/ PlanStored(p) \/ OpenAttempt(p) \/ Write(p) \/ CloseAttempt(p)
               \/ Raises(p) \/ Finish(p) \/ FinishFails(p)
Resetting(p) == \/ Copy(p) \/ KeepBase(p) \/ KeepWork(p) \/ PutBase(p) \/ PutWork(p)
                \/ ResetEnds(p) \/ ResetFails(p) \/ Save(p) \/ SaveConflicts(p)
Request(p)  == \/ Claim(p) \/ Refuse(p) \/ Discard(p) \/ DiscardRefused(p) \/ Inspect(p)
               \/ Shutdown(p)

\* Nobody starts a process any more.
Stopped == budget.starts = 0 /\ (\A p \in Procs : proc[p].pc = "off") /\ UNCHANGED vars

Next == \/ Edit \/ Stopped
        \/ \E p \in Procs : \/ Start(p) \/ Startup(p) \/ Request(p) \/ InRun(p) \/ Returns(p)
                            \/ Apply(p) \/ ApplyRefused(p) \/ Resetting(p) \/ Crash(p)
Spec == Init /\ [][Next]_vars

(***************************************************************************)
(* Properties                                                              *)
(***************************************************************************)
\* A session has a run exactly while its row is RUNNING, and a run that is RUNNING is the run
\* of one session, in its sandbox: no two processes ever run in one sandbox.
OneRunPerSession ==
  /\ \A i \in DOMAIN rows : rows[i].status = "RUNNING" <=> rows[i].run # 0
  /\ \A r \in DOMAIN runs : runs[r].status = "RUNNING" =>
       \E i \in DOMAIN rows : /\ rows[i].run = r /\ rows[i].box = runs[r].box
                              /\ \A k \in DOMAIN rows \ {i} : rows[k].run # r
  /\ \A r, q \in DOMAIN runs :
       r # q /\ runs[r].status = "RUNNING" /\ runs[q].status = "RUNNING" => runs[r].box # runs[q].box

\* A session that takes a run has a sandbox like its baseline, or none (README.md: "CLEAN"), unless
\* a process that starts or discards has reset the sandbox under the attempt of another one.
CleanIsBaseline ==
  ~trampled => \A i \in DOMAIN rows : rows[i].status = "CLEAN" => boxes[rows[i].box].work \in {0, Gone}

\* A session with work to apply is bound to the manifest of a run that ended DONE, and that run
\* was verified against a baseline that was there.
VerifiedIsBound ==
  \A i \in DOMAIN rows : rows[i].status = "DIRTY_VERIFIED" =>
    rows[i].manifest # 0 /\ runs[rows[i].manifest].status = "DONE" /\ runs[rows[i].manifest].base # Gone

\* What the row of a session says is so, of its run and of its sandbox.
RowsAreTrue == TypeOK /\ OneRunPerSession /\ CleanIsBaseline /\ VerifiedIsBound

\* What reaches the project is the work of a run that is DONE, in a sandbox that still holds
\* it, onto the very files it was verified against, and no run's work arrives twice.
AppliedIsVerified ==
  [][published' # published =>
       \E i \in DOMAIN rows :
         LET m == rows[i].manifest
         IN  /\ published' = Append(published, m) /\ \A k \in DOMAIN published : published[k] # m
             /\ rows[i].status = "DIRTY_VERIFIED" /\ boxes[rows[i].box].work = m
             /\ runs[m].status = "DONE" /\ runs[m].base = source]_vars

\* No row skips a status or is written by a process that read an older version of it.
RowsMoveLegally ==
  [][\A i \in DOMAIN rows : rows'[i] # rows[i] =>
       /\ <<rows[i].status, rows'[i].status>> \in ALLOWED_TRANSITIONS
       /\ rows'[i].version = rows[i].version + 1
       /\ \E p \in Procs : /\ proc[p].row = i /\ proc[p].version = rows[i].version
                            /\ proc'[p].version = rows'[i].version]_vars

\* An answer is what happened: applied work is in the project and a discarded sandbox is
\* empty, both with a CLEAN session; a run that failed offers nothing. Only a sandbox that was
\* reset under an open attempt may be filled again, by the recovery of that attempt.
RepliesAreTrue ==
  [][\A p \in Procs : proc'[p].pc = "idle" /\ proc'[p].told # proc[p].told =>
       LET row == rows'[proc'[p].row] box == boxes'[proc'[p].box]
       IN  /\ proc'[p].told \in {"applied", "discarded"} => row.status = "CLEAN" /\ row.manifest = 0
           /\ proc'[p].told = "applied" => \E k \in DOMAIN published : published[k] = proc[p].manifest
           /\ proc'[p].told = "discarded" /\ ~trampled' => box.work \in {0, Gone}
           /\ proc'[p].told = "failed" => row.status \in {"CLEAN", "DIRTY_FAILED"}]_vars

\* Found violated: "Project is ready" is said of a session in which nothing can be done.
IdleIsReady ==
  \A p \in Procs : proc[p].pc = "idle" /\ proc[p].told = "idle" => proc[p].status # "RUNNING"

\* Found violated: a reset that fails leaves the sandbox as it was, or as it becomes.
ResetIsTransactional ==
  [][\A p \in Procs : proc[p].pc = "reset" /\ proc'[p].pc = "idle" =>
       Whole(proc[p].box)']_vars

\* Found violated: the work of a verified session is thrown away only by a process that knows
\* the session as it is.
VerifiedWorkIsKept ==
  [][\A i \in DOMAIN rows :
       /\ rows[i].status = "DIRTY_VERIFIED" /\ rows'[i] = rows[i]
       /\ boxes[rows[i].box].work = rows[i].manifest
       => \/ boxes'[rows[i].box].work = rows[i].manifest
          \/ \E p \in Procs : proc[p].row = i /\ proc[p].pc = "reset" /\ Owns(p)]_vars

\* Found violated: the plan of a run that is DONE stays DONE.
DonePlanStaysDone ==
  \A r \in DOMAIN runs : runs[r].status = "DONE" => runs[r].plan # "FAILED"
=============================================================================
