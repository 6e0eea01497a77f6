--------------------------- MODULE AttemptJournal ---------------------------
(***************************************************************************)
(* DurableAttemptCoordinator: an attempt of the agent as a transaction on  *)
(* the files of its workspace. A row of file_operation_journal records the *)
(* intent before the checkpoint is copied and the readiness after it; the  *)
(* verdict commits the files (the checkpoint is deleted) or restores them  *)
(* from the checkpoint. An attempt that the process did not settle is      *)
(* settled by recover(): at once if run() sees an exception, at the next   *)
(* start of AgentRuntime if the process died.                              *)
(*                                                                         *)
(* The workspace is one sandbox session, or, if Direct, the user's own     *)
(* directory. The process is sequential: pc is where it is, task is which  *)
(* caller of checkpoint(), rollback() or commit() it is executing, cur the *)
(* attempt, todo the files that the copy has still to write.               *)
(* Exceptions and crashes interleave with every step.                      *)
(***************************************************************************)
EXTENDS Integers

CONSTANTS
  Files,        \* the paths of the workspace
  Ignored,      \* those a snapshot leaves out: protected or git-ignored
  Absent,       \* content of a path where there is no file
  Baseline,     \* the content of the session's baseline
  Direct,       \* does the agent work in the user's directory, without a session?
  MaxAttempts,  \* bound: attempts
  MaxRuns,      \* bound: runs
  MaxCrashes,   \* bound: deaths of the process
  MaxFaults,    \* bound: exceptions
  MaxDiscards   \* bound: discarded sessions

Attempts == 1..MaxAttempts
Runs     == 1..MaxRuns
\* 0 is what a file held in the baseline, a what attempt a wrote.
Content  == 0..MaxAttempts \cup {Absent}
Kept     == Files \ Ignored

ASSUME WorkspaceAssumption ==
  /\ Ignored \subseteq Files
  /\ Absent \notin Nat
  /\ Baseline \in [Files -> {0, Absent}]
  /\ Direct \in BOOLEAN

ASSUME BoundAssumption ==
  /\ MaxAttempts \in Nat /\ MaxRuns \in Nat
  /\ MaxCrashes \in Nat /\ MaxFaults \in Nat /\ MaxDiscards \in Nat

VARIABLES
  ws,               \* the workspace
  there, copy,      \* checkpoint directories that exist, and their files
  journal, attempt, \* SQLite: file_operation_journal.state, attempts.status
  owner,            \* SQLite: the run an attempt belongs to
  runs, session,    \* SQLite: agent_runs.status, the session of this workspace
  pc, task, cur, todo, run, \* the process
  fresh, left,      \* runs whose journals are to be recovered: just interrupted, others
  restored, open,   \* start: something was rolled back; is this workspace in use?
  good, decided,    \* history: content last committed, content a verdict accepted
  hurt,             \* history: a rollback began from other content, or a run over a pending journal
  used              \* how much of each bound is spent

disk     == <<ws, there, copy>>
db       == <<journal, attempt, owner, runs, session>>
process  == <<pc, task, cur, todo, run, fresh, left, restored, open>>
history  == <<good, decided, hurt>>
vars     == <<disk, db, process, history, used>>

Pending == {"PREPARING", "READY", "FINALIZING_COMMIT", "FINALIZING_ROLLBACK",
            "RECOVERY_FAILED"}
Final   == {"COMMITTED", "ROLLED_BACK"}
Pcs     == {"down", "idle", "ready", "checkpoint", "copy", "work", "clear",
            "restore", "remove", "settle", "failed", "abort", "recovering", "terminal"}
Finishing  == {"commit", "rollback"}
Recovering == {"recommit", "recover", "drop", "latest"}
Tasks      == {"begin", "undo"} \cup Finishing \cup Recovering

DiskTypeOK ==
  /\ ws \in [Files -> Content]
  /\ there \in SUBSET Attempts /\ copy \in [Attempts -> [Files -> Content]]

RowsTypeOK ==
  /\ journal \in [Attempts -> Pending \cup Final \cup {"none"}]
  /\ attempt \in [Attempts -> {"none", "IN_PROGRESS", "PASS", "FAILED", "BLOCKED"}]
  /\ owner \in [Attempts -> 0..MaxRuns]
  /\ runs \in [Runs -> {"none", "RUNNING", "DONE", "FAILED", "INTERRUPTED"}]
  /\ session \in {"CLEAN", "RUNNING", "DIRTY"}

ProcessTypeOK ==
  /\ pc \in Pcs /\ task \in Tasks /\ cur \in 0..MaxAttempts
  /\ todo \in SUBSET Files /\ run \in 0..MaxRuns
  /\ fresh \in SUBSET Runs /\ left \in SUBSET Runs

FlagsTypeOK == restored \in BOOLEAN /\ open \in BOOLEAN /\ hurt \in BOOLEAN

HistoryTypeOK ==
  /\ good \in [Files -> Content] /\ decided \in [Files -> Content]
  /\ used \in [crashes : 0..MaxCrashes, faults : 0..MaxFaults, discards : 0..MaxDiscards]

TypeOK == DiskTypeOK /\ RowsTypeOK /\ ProcessTypeOK /\ FlagsTypeOK /\ HistoryTypeOK

Init ==
  /\ ws = Baseline /\ there = {} /\ copy = [a \in Attempts |-> [f \in Files |-> Absent]]
  /\ journal = [a \in Attempts |-> "none"] /\ attempt = [a \in Attempts |-> "none"]
  /\ owner = [a \in Attempts |-> 0]
  /\ runs = [r \in Runs |-> "none"] /\ session = "CLEAN"
  /\ pc = "idle" /\ task = "begin" /\ cur = 0 /\ todo = {} /\ run = 0
  /\ fresh = {} /\ left = {} /\ restored = FALSE /\ open = TRUE
  /\ good = Baseline /\ decided = Baseline /\ hurt = FALSE
  /\ used = [crashes |-> 0, faults |-> 0, discards |-> 0]

(***************************************************************************)
(* Shared by the steps                                                     *)
(***************************************************************************)
\* Mutant: a journal that was rolled back is offered to recovery again.
IsPending_RolledBackToo(a) == journal[a] \in Pending \cup {"ROLLED_BACK"}

\* list_recovery_journals
IsPending(a)  == journal[a] \in Pending
PendingOf(r)  == {a \in Attempts : IsPending(a) /\ owner[a] = r}
Same(f, g)    == \A p \in Kept : f[p] = g[p]
Empty         == [p \in Files |-> Absent]
\* changed_files(): the snapshot differs from the baseline's.
Changed       == ~Same(ws, Baseline)

Goto(label)   == pc' = label /\ UNCHANGED <<task, cur, todo, run, fresh, left, restored, open>>
\* rollback() of attempt a is about to read its checkpoint.
ReadsBack(a)  == hurt' = (hurt \/ ~Same(copy[a], good)) /\ UNCHANGED <<good, decided>>
\* The process is gone, or its constructor has raised.
Gone          == /\ pc' = "down" /\ task' = "begin" /\ cur' = 0 /\ todo' = {} /\ run' = 0
                 /\ fresh' = {} /\ left' = {} /\ restored' = FALSE /\ open' = FALSE
\* Mutant: the controller swallows the exception of begin() or finish().
Propagate_Swallowed == Goto("ready")

\* begin() and finish() raise, the loop ends, run() recovers.
Propagate     == Goto("abort")
\* recover() raises: run() goes on to its terminal state, a start fails.
RecoveryRaised == IF run = 0 THEN Gone ELSE Goto("terminal")

\* Mutant: recovery settles the journal and leaves the attempt open.
Closed_LeftOpen(a, status) == attempt[a]

\* UPDATE attempts ... WHERE status = 'IN_PROGRESS'
Closed(a, status) == IF attempt[a] = "IN_PROGRESS" THEN status ELSE attempt[a]

(***************************************************************************)
(* A run, and the beginning of an attempt                                  *)
(***************************************************************************)
\* start_run: the session is claimed by compare-and-set.
StartRun ==
  /\ pc = "idle" /\ open /\ session = "CLEAN"
  /\ \E r \in Runs :
       /\ runs[r] = "none" /\ \A q \in Runs : q < r => runs[q] # "none"
       /\ runs' = [runs EXCEPT ![r] = "RUNNING"] /\ run' = r
  /\ session' = IF Direct THEN session ELSE "RUNNING"
  /\ pc' = "ready" /\ UNCHANGED <<task, cur, todo, fresh, left, restored, open>>
  /\ hurt' = (hurt \/ \E a \in Attempts : IsPending(a)) /\ UNCHANGED <<good, decided>>
  /\ UNCHANGED <<disk, journal, attempt, owner, used>>

\* begin(): prepare_attempt inserts attempt and journal in one transaction.
PrepareAttempt ==
  /\ pc = "ready"
  /\ \E a \in Attempts :
       /\ journal[a] = "none" /\ \A b \in Attempts : b < a => journal[b] # "none"
       /\ journal' = [journal EXCEPT ![a] = "PREPARING"]
       /\ attempt' = [attempt EXCEPT ![a] = "IN_PROGRESS"]
       /\ owner' = [owner EXCEPT ![a] = run]
       /\ cur' = a
  /\ task' = "begin" /\ pc' = "checkpoint"
  /\ UNCHANGED <<disk, runs, session, todo, run, fresh, left, restored, open, history, used>>

\* workspace.checkpoint: the directory appears under its final name, empty.
MakeCheckpoint ==
  /\ pc = "checkpoint"
  /\ there' = there \cup {cur} /\ copy' = [copy EXCEPT ![cur] = Empty]
  /\ todo' = {p \in Kept : ws[p] # Absent}
  /\ pc' = "copy" /\ UNCHANGED <<task, cur, run, fresh, left, restored, open>>
  /\ UNCHANGED <<ws, db, history, used>>

\* materialize: one file after another.
CopyFile ==
  /\ pc = "copy"
  /\ \E p \in todo : /\ copy' = [copy EXCEPT ![cur][p] = ws[p]]
                     /\ todo' = todo \ {p}
  /\ UNCHANGED <<pc, task, cur, run, fresh, left, restored, open>>
  /\ UNCHANGED <<ws, there, db, history, used>>

\* Mutant: the journal is READY before the copy is complete.
MarkReady_Early ==
  /\ pc = "copy"
  /\ journal' = [journal EXCEPT ![cur] = "READY"]
  /\ Goto("work")
  /\ UNCHANGED <<disk, attempt, owner, runs, session, history, used>>

MarkReady ==
  /\ pc = "copy" /\ todo = {}
  /\ journal' = [journal EXCEPT ![cur] = "READY"]
  /\ Goto("work")
  /\ UNCHANGED <<disk, attempt, owner, runs, session, history, used>>

\* The coder's tools write and delete files.
Write ==
  /\ pc = "work"
  /\ \E p \in Files, c \in {cur, Absent} : ws' = [ws EXCEPT ![p] = c]
  /\ UNCHANGED <<there, copy, db, process, history, used>>

(***************************************************************************)
(* finish(): the verdict, rollback() and commit() of the workspace         *)
(***************************************************************************)
Accept ==
  /\ pc = "work"
  /\ journal' = [journal EXCEPT ![cur] = "FINALIZING_COMMIT"]
  /\ pc' = "remove" /\ task' = "commit"
  /\ UNCHANGED <<cur, todo, run, fresh, left, restored, open>>
  /\ decided' = ws /\ UNCHANGED <<good, hurt>>
  /\ UNCHANGED <<disk, attempt, owner, runs, session, used>>

Reject ==
  /\ pc = "work"
  /\ journal' = [journal EXCEPT ![cur] = "FINALIZING_ROLLBACK"]
  /\ pc' = "clear" /\ task' = "rollback"
  /\ UNCHANGED <<cur, todo, run, fresh, left, restored, open>>
  /\ ReadsBack(cur)
  /\ UNCHANGED <<disk, attempt, owner, runs, session, used>>

\* rollback(): everything goes, what a snapshot leaves out as well.
ClearFile ==
  /\ pc = "clear"
  /\ \E p \in Files : ws[p] # Absent /\ ws' = [ws EXCEPT ![p] = Absent]
  /\ UNCHANGED <<there, copy, db, process, history, used>>

\* Mutant: files that the attempt added are not removed.
Cleared_KeepsAddedFiles ==
  /\ pc = "clear"
  /\ todo' = {p \in Kept : copy[cur][p] # Absent}
  /\ pc' = "restore" /\ UNCHANGED <<task, cur, run, fresh, left, restored, open>>
  /\ UNCHANGED <<disk, db, history, used>>

Cleared ==
  /\ pc = "clear" /\ ws = Empty
  /\ todo' = {p \in Kept : copy[cur][p] # Absent}
  /\ pc' = "restore" /\ UNCHANGED <<task, cur, run, fresh, left, restored, open>>
  /\ UNCHANGED <<disk, db, history, used>>

RestoreFile ==
  /\ pc = "restore"
  /\ \E p \in todo : ws' = [ws EXCEPT ![p] = copy[cur][p]] /\ todo' = todo \ {p}
  /\ UNCHANGED <<pc, task, cur, run, fresh, left, restored, open>>
  /\ UNCHANGED <<there, copy, db, history, used>>

Restored ==
  /\ pc = "restore" /\ todo = {} /\ task # "latest"
  /\ Goto("remove") /\ UNCHANGED <<disk, db, history, used>>

\* commit(): rmtree of the checkpoint, one file after another.
RemoveFile ==
  /\ pc = "remove"
  /\ \E p \in Files : /\ copy[cur][p] # Absent
                      /\ copy' = [copy EXCEPT ![cur][p] = Absent]
  /\ UNCHANGED <<ws, there, db, process, history, used>>

\* Mutant: the emptied checkpoint directory stays.
RemoveDirectory_Stays ==
  /\ pc = "remove" /\ copy[cur] = Empty
  /\ Goto(IF task = "undo" THEN "failed" ELSE "settle")
  /\ UNCHANGED <<disk, db, history, used>>

RemoveDirectory ==
  /\ pc = "remove" /\ copy[cur] = Empty
  /\ there' = there \ {cur}
  /\ Goto(IF task = "undo" THEN "failed" ELSE "settle")
  /\ UNCHANGED <<ws, copy, db, history, used>>

\* complete_attempt: journal and attempt in one transaction.
CompleteAttempt ==
  /\ pc = "settle"
  /\ \/ /\ task = "commit" /\ journal[cur] = "FINALIZING_COMMIT"
        /\ journal' = [journal EXCEPT ![cur] = "COMMITTED"]
        /\ attempt' = [attempt EXCEPT ![cur] = "PASS"]
        /\ good' = decided
     \/ /\ task = "rollback" /\ journal[cur] = "FINALIZING_ROLLBACK"
        /\ journal' = [journal EXCEPT ![cur] = "ROLLED_BACK"]
        /\ \E s \in {"FAILED", "BLOCKED"} : attempt' = [attempt EXCEPT ![cur] = s]
        /\ good' = good
  /\ Goto("ready")
  /\ UNCHANGED <<disk, owner, runs, session, decided, hurt, used>>

(***************************************************************************)
(* The end of a run                                                        *)
(***************************************************************************)
\* Mutant: a session keeps the name of its run's outcome.
SettledSession_Outcome(outcome) == IF Changed THEN outcome ELSE "CLEAN"

\* The session is dirty if files differ from the baseline.
SettledSession(outcome) ==
  IF Direct THEN session ELSE IF Changed THEN "DIRTY" ELSE "CLEAN"

\* finish_terminal
EndRun(outcome) ==
  /\ runs' = [runs EXCEPT ![run] = outcome] /\ session' = SettledSession(outcome)
  /\ pc' = "idle" /\ task' = "begin" /\ cur' = 0 /\ todo' = {} /\ run' = 0
  /\ UNCHANGED <<fresh, left, restored, open>>
  /\ UNCHANGED <<disk, journal, attempt, owner, history, used>>

FinishRun    == pc = "ready" /\ \E outcome \in {"DONE", "FAILED"} : EndRun(outcome)
InterruptRun == pc = "terminal" /\ EndRun("INTERRUPTED")

(***************************************************************************)
(* Recovery: in run() after an exception, in the constructor after a start *)
(***************************************************************************)
\* The except branch of run(): recover_pending(run_id).
Abort ==
  /\ pc = "abort"
  /\ pc' = "recovering" /\ todo' = {}
  /\ left' = {r \in {run} : PendingOf(r) # {}}
  /\ UNCHANGED <<task, cur, run, fresh, restored, open>>
  /\ UNCHANGED <<disk, db, history, used>>

\* Mutant: the runs that this start has just interrupted are not looked at.
JustInterrupted_Forgotten == {}

\* recover_interrupted
JustInterrupted == {r \in Runs : runs[r] = "RUNNING"}

\* The constructor: recover_interrupted(), then runs with a pending journal.
Startup ==
  /\ pc = "down"
  /\ runs' = [r \in Runs |-> IF runs[r] = "RUNNING" THEN "INTERRUPTED" ELSE runs[r]]
  /\ fresh' = JustInterrupted
  /\ left' = {r \in Runs : runs[r] # "RUNNING" /\ PendingOf(r) # {}}
  /\ pc' = "recovering" /\ UNCHANGED <<task, cur, todo, run, restored, open>>
  /\ UNCHANGED <<disk, journal, attempt, owner, session, history, used>>

\* Interrupted runs come first, in the order of their ids.
IsNext(r) ==
  \/ r \in fresh /\ \A q \in fresh : r <= q
  \/ fresh = {} /\ r \in left /\ \A q \in left : r <= q
\* Mutant: accepted work is rolled back as long as its checkpoint exists.
Accepted_IfCheckpointGone(a) == journal[a] = "FINALIZING_COMMIT" /\ a \notin there

Accepted(a)    == journal[a] = "FINALIZING_COMMIT"
CanDrop(a)     == journal[a] \in {"PREPARING", "FINALIZING_ROLLBACK"}
IsOldest(r, a) == a \in PendingOf(r) /\ \A b \in PendingOf(r) : a <= b
LeaveRun(r)    == fresh' = fresh \ {r} /\ left' = left \ {r}

\* recover(journal): what it does depends on the row and on has_checkpoint().
RecoverNext ==
  /\ pc = "recovering"
  /\ \E r \in Runs, a \in Attempts :
       /\ IsNext(r) /\ IsOldest(r, a)
       /\ cur' = a
       /\ \/ /\ Accepted(a) /\ task' = "recommit"
             /\ pc' = IF a \in there THEN "remove" ELSE "settle"
             /\ UNCHANGED history
          \/ /\ ~Accepted(a) /\ a \in there
             /\ task' = "recover" /\ pc' = "clear"
             /\ ReadsBack(a)
          \/ /\ CanDrop(a) /\ a \notin there
             /\ task' = "drop" /\ pc' = "settle"
             /\ UNCHANGED history
          \/ /\ ~Accepted(a) /\ ~CanDrop(a) /\ a \notin there
             /\ task' = "recover" /\ pc' = "failed"
             /\ UNCHANGED history
  /\ UNCHANGED <<todo, run, fresh, left, restored, open, disk, db, used>>

\* complete_recovery: the row is pending; the attempt if it is still open.
CompleteRecovery ==
  /\ pc = "settle" /\ task \in Recovering /\ IsPending(cur)
  /\ LET committed == task = "recommit" IN
       /\ journal' = [journal EXCEPT ![cur] = IF committed THEN "COMMITTED" ELSE "ROLLED_BACK"]
       /\ attempt' = [attempt EXCEPT ![cur] = Closed(cur, IF committed THEN "PASS" ELSE "BLOCKED")]
       /\ good' = IF committed THEN decided ELSE good
  /\ pc' = "recovering" /\ restored' = (restored \/ task = "recover")
  /\ IF PendingOf(owner[cur]) = {cur} THEN LeaveRun(owner[cur]) ELSE UNCHANGED <<fresh, left>>
  /\ UNCHANGED <<task, cur, todo, run, open, disk, owner, runs, session, decided, hurt, used>>

\* An interrupted run without a journal: its sandbox goes back to the latest
\* checkpoint there is. DirectWorkspaceCheckpoints has no latest_checkpoint().
RecoverWithoutJournal ==
  /\ pc = "recovering"
  /\ \E r \in Runs :
       /\ IsNext(r) /\ PendingOf(r) = {}
       /\ \/ /\ Direct /\ Gone /\ UNCHANGED history
          \/ /\ ~Direct /\ there = {} /\ LeaveRun(r)
             /\ UNCHANGED <<pc, task, cur, todo, run, restored, open, history>>
          \/ /\ ~Direct
             /\ \E a \in there : cur' = a /\ ReadsBack(a)
             /\ task' = "latest" /\ pc' = "clear"
             /\ UNCHANGED <<todo, run, fresh, left, restored, open>>
  /\ UNCHANGED <<disk, db, used>>

RestoredLatest ==
  /\ pc = "restore" /\ todo = {} /\ task = "latest"
  /\ pc' = "recovering" /\ restored' = TRUE
  /\ \E r \in Runs : IsNext(r) /\ LeaveRun(r)
  /\ UNCHANGED <<task, cur, todo, run, open, disk, db, history, used>>

\* All is recovered: run() records its end; a start reopens the sandbox it has
\* restored or one with a dirty session, and otherwise creates another.
Recovered ==
  /\ pc = "recovering" /\ fresh = {} /\ left = {}
  /\ IF run # 0
       THEN Goto("terminal")
       ELSE /\ pc' = "idle" /\ task' = "begin" /\ cur' = 0 /\ restored' = FALSE
            /\ open' = (Direct \/ restored \/ session = "DIRTY")
            /\ UNCHANGED <<todo, run, fresh, left>>
  /\ UNCHANGED <<disk, db, history, used>>

\* record_preparation_failure, record_finalization_failure, record_recovery_failure.
RecordFailure ==
  /\ pc = "failed"
  /\ \/ /\ task \in {"begin", "undo"} /\ journal[cur] = "PREPARING"
        /\ attempt' = [attempt EXCEPT ![cur] = Closed(cur, "BLOCKED")]
        /\ UNCHANGED journal /\ Propagate
     \/ /\ task \in Finishing
        /\ journal' = [journal EXCEPT ![cur] = "RECOVERY_FAILED"]
        /\ UNCHANGED attempt /\ Propagate
     \/ /\ task \in Recovering
        /\ journal' = [journal EXCEPT ![cur] = "RECOVERY_FAILED"]
        /\ UNCHANGED attempt /\ RecoveryRaised
  /\ UNCHANGED <<disk, owner, runs, session, history, used>>

(***************************************************************************)
(* The environment                                                         *)
(***************************************************************************)
\* An exception in the step the process is at; the transaction of a database
\* step is rolled back.
Fault ==
  /\ used.faults < MaxFaults
  /\ used' = [used EXCEPT !.faults = @ + 1]
  /\ \/ pc \in {"ready", "work"} /\ Goto("abort") /\ UNCHANGED history
     \/ pc = "checkpoint" /\ Goto("failed") /\ UNCHANGED history
     \/ pc = "copy" /\ todo # {} /\ Goto("failed") /\ UNCHANGED history
     \/ /\ pc = "copy" /\ todo = {} \* mark_checkpoint_ready raised
        /\ pc' = "clear" /\ task' = "undo" /\ ReadsBack(cur)
        /\ UNCHANGED <<cur, todo, run, fresh, left, restored, open>>
     \/ /\ pc \in {"clear", "restore", "remove"} \/ (pc = "settle" /\ task \in Recovering)
        /\ IF task = "latest" THEN Gone ELSE Goto("failed")
        /\ UNCHANGED history
     \/ pc = "settle" /\ task \in Finishing /\ Goto("abort") /\ UNCHANGED history
     \/ /\ pc = "failed" /\ UNCHANGED history
        /\ IF task \in Recovering THEN RecoveryRaised ELSE Propagate
     \/ pc = "abort" /\ Goto("terminal") /\ UNCHANGED history
     \/ pc = "recovering" /\ RecoveryRaised /\ UNCHANGED history
     \/ /\ pc = "recovering" /\ ~Direct \* the sandbox of a run without journal does not open
        /\ \E r \in Runs : IsNext(r) /\ PendingOf(r) = {} /\ LeaveRun(r)
        /\ UNCHANGED <<pc, task, cur, todo, run, restored, open, history>>
     \/ /\ pc = "terminal" \* the run's row and the session stay RUNNING
        /\ pc' = "idle" /\ task' = "begin" /\ cur' = 0 /\ run' = 0
        /\ UNCHANGED <<todo, fresh, left, restored, open, history>>
  /\ UNCHANGED <<disk, db>>

Crash ==
  /\ pc # "down" /\ used.crashes < MaxCrashes
  /\ used' = [used EXCEPT !.crashes = @ + 1]
  /\ Gone /\ UNCHANGED <<disk, db, history>>

\* The user closes the program between two requests.
Exit == pc = "idle" /\ Gone /\ UNCHANGED <<disk, db, history, used>>

\* discard_session: baseline and workspace are copied from the source again,
\* and all checkpoints are removed. It does not look at the journals.
Discard ==
  /\ pc = "idle" /\ open /\ ~Direct /\ session # "RUNNING"
  /\ used.discards < MaxDiscards
  /\ used' = [used EXCEPT !.discards = @ + 1]
  /\ ws' = Baseline /\ there' = {} /\ copy' = [a \in Attempts |-> Empty]
  /\ session' = "CLEAN"
  /\ good' = Baseline /\ decided' = Baseline /\ hurt' = FALSE
  /\ UNCHANGED <<journal, attempt, owner, runs, process>>

Finish  == \/ Accept \/ Reject \/ ClearFile \/ Cleared \/ RestoreFile \/ Restored
           \/ RemoveFile \/ RemoveDirectory \/ CompleteAttempt
Begin   == MakeCheckpoint \/ CopyFile \/ MarkReady
Recover == \/ Abort \/ RecoverNext \/ CompleteRecovery \/ RecoverWithoutJournal
           \/ RestoredLatest \/ Recovered \/ RecordFailure \/ InterruptRun
Step    == Begin \/ Finish \/ Recover
Choices == StartRun \/ PrepareAttempt \/ Write \/ FinishRun \/ Exit
Environment == Fault \/ Crash \/ Discard

Next == Step \/ Startup \/ Choices \/ Environment

\* A process that runs goes on, and the program is started again.
Fairness == WF_vars(Step) /\ WF_vars(Startup)
Spec     == Init /\ [][Next]_vars
FairSpec == Spec /\ Fairness

(***************************************************************************)
(* Properties                                                              *)
(***************************************************************************)
\* While no journal is pending the workspace holds what was last committed:
\* the content a verdict accepted, whatever attempts were rejected, interrupted
\* or recovered since. (hurt: a rollback from other content and a run over a
\* pending journal are what RollbackReadsCommitted and LaterCommitSurvives are about.)
WorkspaceIsCommitted ==
  (~hurt /\ \A a \in Attempts : ~IsPending(a)) => Same(ws, good)

\* The coder never touches a file before a whole checkpoint of the committed
\* content is on disk and the journal says so.
WorkIsUndoable ==
  (pc = "work" /\ ~hurt) =>
     journal[cur] = "READY" /\ cur \in there /\ Same(copy[cur], good)

\* The attempt's history and the journal tell the same: an attempt has passed
\* if and only if its files were committed, and is open only while its journal is.
PassIffCommitted ==
  \A a \in Attempts :
    /\ attempt[a] = "PASS" <=> journal[a] = "COMMITTED"
    /\ attempt[a] = "IN_PROGRESS" => IsPending(a)
    /\ journal[a] = "ROLLED_BACK" => attempt[a] \in {"FAILED", "BLOCKED"}

\* No checkpoint outlives its journal; a run that was interrupted without a
\* journal would be rolled back to it.
CheckpointsHaveJournals == \A a \in there : IsPending(a)

\* Attempts of a run do not nest.
AttemptsDoNotNest ==
  /\ pc = "ready" => PendingOf(run) = {}
  /\ pc \in {"checkpoint", "copy", "work"} => PendingOf(run) = {cur}

\* A settled journal stays as it is, and so does an attempt that was closed:
\* no recovery revises it.
DecisionIsFinal ==
  [][\A a \in Attempts :
       /\ journal[a] \in Final => journal'[a] = journal[a]
       /\ attempt[a] \in {"PASS", "FAILED", "BLOCKED"} => attempt'[a] = attempt[a]]_vars

\* Once the verdict is recorded, crashes do not undo accepted work.
AcceptedWorkSurvivesCrashes ==
  [][\A a \in Attempts :
       journal[a] = "FINALIZING_COMMIT" /\ used.faults = 0
          => journal'[a] \in {"FINALIZING_COMMIT", "COMMITTED"}]_vars

\* Journals, the history of attempts and the directories of checkpoints tell the same story.
RecordsAgree == TypeOK /\ PassIffCommitted /\ CheckpointsHaveJournals /\ AttemptsDoNotNest

\* The workspace is what was committed last, and work in progress can be undone.
FilesAreSafe == WorkspaceIsCommitted /\ WorkIsUndoable

\* What was decided stays decided, and work that was accepted is never rolled back.
DecisionsHold == DecisionIsFinal /\ AcceptedWorkSurvivesCrashes

\* A journal is settled in the end, by its run or by a later start.
JournalIsSettled ==
  \A a \in Attempts : IsPending(a) ~> ~IsPending(a)

\* "back at the last committed checkpoint": every rollback starts from a
\* checkpoint of the committed content. Violated: a crash can leave half a copy.
RollbackReadsCommitted == pc = "clear" => Same(copy[cur], good)

\* A rollback does not undo an attempt that passed after it. Violated: an
\* unsettled journal does not keep the next run from starting.
LaterCommitSurvives ==
  pc = "clear" => \A b \in Attempts : b > cur => journal[b] # "COMMITTED"

\* Recovery is idempotent: crashes alone do not make it fail. Violated by a
\* crash between the removal of the checkpoint and complete_recovery.
CrashesAloneAreRecovered ==
  used.faults = 0 /\ used.discards = 0
     => \A a \in Attempts : journal[a] # "RECOVERY_FAILED"

\* After a discard no journal waits for a checkpoint that is gone. Violated:
\* discard removes the checkpoints and leaves the journals.
DiscardLeavesNoStuckJournal ==
  used.discards > 0 =>
     \A a \in Attempts : journal[a] \in {"READY", "RECOVERY_FAILED"} => a \in there
=============================================================================
