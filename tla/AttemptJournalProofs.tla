------------------------ MODULE AttemptJournalProofs ------------------------
(***************************************************************************)
(* For any files, attempts, runs and any number of crashes and exceptions: *)
(* the journal, the attempts and the checkpoint directories agree,         *)
(* attempts of a run do not nest, what was decided stays decided, and the  *)
(* workspace holds what was committed last.                                *)
(***************************************************************************)
EXTENDS AttemptJournal, TLAPS

(***************************************************************************)
(* The inductive invariant                                                 *)
(***************************************************************************)
BeginPcs == {"checkpoint", "copy", "work"}
FilePcs  == {"clear", "restore", "remove", "settle", "failed"}
\* The tasks of begin() and finish(); the others are those of recover().
OwnTasks == {"begin", "undo", "commit", "rollback"}

\* Which task can be at which step.
TaskOK ==
  /\ pc \in BeginPcs => task = "begin"
  /\ pc \in {"clear", "restore"} => task \in {"undo", "rollback", "recover", "latest"}
  /\ pc = "remove" => task \in {"undo", "commit", "rollback", "recommit", "recover"}
  /\ pc = "settle" => task \in {"commit", "rollback", "recommit", "recover", "drop"}
  /\ pc = "failed" => task \in OwnTasks \cup {"recommit", "recover", "drop"}
  /\ pc \in BeginPcs \cup FilePcs => cur \in Attempts

\* The journal of the attempt that the process works on.
RowOK ==
  /\ pc \in {"checkpoint", "copy"} =>
       journal[cur] = "PREPARING" /\ attempt[cur] = "IN_PROGRESS"
  /\ pc = "work" => journal[cur] = "READY"
  /\ pc \in FilePcs =>
       /\ task \in {"begin", "undo"} => journal[cur] = "PREPARING"
       /\ task \in {"commit", "recommit"} => journal[cur] = "FINALIZING_COMMIT"
       /\ task = "rollback" => journal[cur] = "FINALIZING_ROLLBACK"
       /\ task \in {"recover", "drop"} => IsPending(cur) /\ ~Accepted(cur)

\* Without exceptions only a recovery that misses its checkpoint fails.
QuietOK ==
  used.faults = 0 =>
    /\ pc = "failed" => task = "recover"
    /\ pc \in FilePcs => task # "undo"

\* A preparation that failed closes its attempt and leaves its journal pending;
\* otherwise the attempt is open as long as the journal is.
StatusOK ==
  \A a \in Attempts :
    /\ journal[a] = "none" <=> attempt[a] = "none"
    /\ journal[a] \in {"PREPARING", "RECOVERY_FAILED"} =>
         attempt[a] \in {"IN_PROGRESS", "BLOCKED"}
    /\ journal[a] \in {"READY", "FINALIZING_COMMIT", "FINALIZING_ROLLBACK"} =>
         attempt[a] = "IN_PROGRESS"
    /\ journal[a] = "COMMITTED" => attempt[a] = "PASS"
    /\ journal[a] = "ROLLED_BACK" => attempt[a] \in {"FAILED", "BLOCKED"}

\* A journal is settled only after its checkpoint is gone.
CheckpointOK ==
  /\ CheckpointsHaveJournals
  /\ pc = "settle" => cur \notin there

\* A run that was never started owns nothing; an attempt is begun only when its
\* run has settled the earlier ones.
OwnerOK ==
  /\ \A a \in Attempts :
       journal[a] # "none" => owner[a] \in Runs /\ runs[owner[a]] # "none"
  /\ run # 0 => runs[run] # "none"
  /\ pc \in BeginPcs \cup {"ready"} => run # 0
  /\ pc = "ready" => PendingOf(run) = {}
  /\ pc \in BeginPcs \/ (pc \in FilePcs /\ task \in OwnTasks)
       => /\ run # 0 /\ owner[cur] = run
          /\ PendingOf(run) \subseteq {cur}

IndInv == TypeOK /\ TaskOK /\ RowOK /\ QuietOK /\ StatusOK /\ CheckpointOK /\ OwnerOK

(***************************************************************************)
(* Type correctness                                                        *)
(***************************************************************************)
\* The baseline and an empty tree are trees of files.
LEMMA ContentLemma == Baseline \in [Files -> Content] /\ Empty \in [Files -> Content]
BY WorkspaceAssumption, BoundAssumption DEF Content, Empty

\* Every initial state has the types.
LEMMA TypeInit == Init => TypeOK
<1>. SUFFICES ASSUME Init PROVE TypeOK
  OBVIOUS
<1>. USE WorkspaceAssumption, BoundAssumption DEF Init, Attempts, Runs, Content
<1>1. DiskTypeOK
  BY DEF DiskTypeOK
<1>2. RowsTypeOK
  BY DEF RowsTypeOK
<1>3. ProcessTypeOK
  BY DEF ProcessTypeOK, Pcs, Tasks
<1>4. FlagsTypeOK
  BY Zenon DEF FlagsTypeOK
<1>5. good \in [Files -> Content] /\ decided \in [Files -> Content]
  BY ContentLemma
<1>6. HistoryTypeOK
  BY <1>5 DEF HistoryTypeOK
<1>. QED BY <1>1, <1>2, <1>3, <1>4, <1>6 DEF TypeOK

\* Workspace and checkpoints keep their types.
LEMMA DiskTypeStep == ASSUME IndInv, [Next]_vars PROVE DiskTypeOK'
<1>. USE WorkspaceAssumption, BoundAssumption DEF IndInv, TypeOK, DiskTypeOK, ProcessTypeOK,
     TaskOK, disk, db, process, history
<1>1. CASE StartRun
  BY <1>1 DEF StartRun
<1>2. CASE PrepareAttempt
  BY <1>2 DEF PrepareAttempt
<1>3. CASE MakeCheckpoint
  BY <1>3, ContentLemma DEF MakeCheckpoint, Attempts, BeginPcs
<1>4. CASE CopyFile
  <2>. USE <1>4 DEF CopyFile
  <2>1. PICK p \in Files : copy' = [copy EXCEPT ![cur][p] = ws[p]]
    OBVIOUS
  <2>2. cur \in Attempts
    BY DEF BeginPcs, FilePcs
  <2>3. ws[p] \in Content
    BY <2>2
  <2>4. [copy[cur] EXCEPT ![p] = ws[p]] \in [Files -> Content]
    BY <2>2, <2>3
  <2>5. copy' = [copy EXCEPT ![cur] = [copy[cur] EXCEPT ![p] = ws[p]]]
    BY <2>1
  <2>. QED BY <2>2, <2>4, <2>5
<1>5. CASE MarkReady
  BY <1>5 DEF MarkReady
<1>6. CASE Write
  BY <1>6 DEF Write, Content, Attempts, BeginPcs
<1>7. CASE Accept
  BY <1>7 DEF Accept
<1>8. CASE Reject
  BY <1>8 DEF Reject
<1>9. CASE ClearFile
  BY <1>9 DEF ClearFile, Content
<1>10. CASE Cleared
  BY <1>10 DEF Cleared
<1>11. CASE RestoreFile
  BY <1>11 DEF RestoreFile, FilePcs
<1>12. CASE Restored
  BY <1>12 DEF Restored
<1>13. CASE RemoveFile
  <2>. USE <1>13 DEF RemoveFile, Content
  <2>1. PICK p \in Files : copy' = [copy EXCEPT ![cur][p] = Absent]
    OBVIOUS
  <2>2. cur \in Attempts
    BY DEF BeginPcs, FilePcs
  <2>3. Absent \in Content
    BY <2>2
  <2>4. [copy[cur] EXCEPT ![p] = Absent] \in [Files -> Content]
    BY <2>2, <2>3
  <2>5. copy' = [copy EXCEPT ![cur] = [copy[cur] EXCEPT ![p] = Absent]]
    BY <2>1
  <2>. QED BY <2>2, <2>4, <2>5
<1>14. CASE RemoveDirectory
  BY <1>14 DEF RemoveDirectory
<1>15. CASE CompleteAttempt
  BY <1>15 DEF CompleteAttempt
<1>16. CASE FinishRun
  BY <1>16 DEF FinishRun, EndRun
<1>17. CASE InterruptRun
  BY <1>17 DEF InterruptRun, EndRun
<1>18. CASE Abort
  BY <1>18 DEF Abort
<1>19. CASE Startup
  BY <1>19 DEF Startup
<1>20. CASE RecoverNext
  BY <1>20 DEF RecoverNext
<1>21. CASE CompleteRecovery
  BY <1>21 DEF CompleteRecovery
<1>22. CASE RecoverWithoutJournal
  BY <1>22 DEF RecoverWithoutJournal
<1>23. CASE RestoredLatest
  BY <1>23 DEF RestoredLatest
<1>24. CASE Recovered
  BY <1>24 DEF Recovered
<1>25. CASE RecordFailure
  BY <1>25 DEF RecordFailure
<1>26. CASE Fault
  BY <1>26 DEF Fault
<1>27. CASE Crash
  BY <1>27 DEF Crash
<1>28. CASE Exit
  BY <1>28 DEF Exit
<1>29. CASE Discard
  BY <1>29, ContentLemma DEF Discard
<1>30. CASE UNCHANGED vars
  BY <1>30 DEF vars
<1>. QED BY <1>1, <1>2, <1>3, <1>4, <1>5, <1>6, <1>7, <1>8, <1>9, <1>10,
     <1>11, <1>12, <1>13, <1>14, <1>15, <1>16, <1>17, <1>18, <1>19, <1>20,
     <1>21, <1>22, <1>23, <1>24, <1>25, <1>26, <1>27, <1>28, <1>29, <1>30
     DEF Next, Step, Begin, Finish, Recover, Choices, Environment

\* The rows keep their types.
LEMMA RowsTypeStep == ASSUME TypeOK, [Next]_vars PROVE RowsTypeOK'
<1>. USE BoundAssumption DEF TypeOK, RowsTypeOK, ProcessTypeOK, Attempts, Runs, Pending,
     Final, disk, db, process, history
<1>1. CASE StartRun
  BY <1>1 DEF StartRun
<1>2. CASE PrepareAttempt
  BY <1>2 DEF PrepareAttempt
<1>3. CASE MakeCheckpoint
  BY <1>3 DEF MakeCheckpoint
<1>4. CASE CopyFile
  BY <1>4 DEF CopyFile
<1>5. CASE MarkReady
  BY <1>5 DEF MarkReady
<1>6. CASE Write
  BY <1>6 DEF Write
<1>7. CASE Accept
  BY <1>7 DEF Accept
<1>8. CASE Reject
  BY <1>8 DEF Reject
<1>9. CASE ClearFile
  BY <1>9 DEF ClearFile
<1>10. CASE Cleared
  BY <1>10 DEF Cleared
<1>11. CASE RestoreFile
  BY <1>11 DEF RestoreFile
<1>12. CASE Restored
  BY <1>12 DEF Restored
<1>13. CASE RemoveFile
  BY <1>13 DEF RemoveFile
<1>14. CASE RemoveDirectory
  BY <1>14 DEF RemoveDirectory
<1>15. CASE CompleteAttempt
  BY <1>15 DEF CompleteAttempt
<1>16. CASE FinishRun
  BY <1>16 DEF FinishRun, EndRun, SettledSession
<1>17. CASE InterruptRun
  BY <1>17 DEF InterruptRun, EndRun, SettledSession
<1>18. CASE Abort
  BY <1>18 DEF Abort
<1>19. CASE Startup
  BY <1>19 DEF Startup
<1>20. CASE RecoverNext
  BY <1>20 DEF RecoverNext
<1>21. CASE CompleteRecovery
  BY <1>21 DEF CompleteRecovery, Closed
<1>22. CASE RecoverWithoutJournal
  BY <1>22 DEF RecoverWithoutJournal
<1>23. CASE RestoredLatest
  BY <1>23 DEF RestoredLatest
<1>24. CASE Recovered
  BY <1>24 DEF Recovered
<1>25. CASE RecordFailure
  BY <1>25 DEF RecordFailure, Closed
<1>26. CASE Fault
  BY <1>26 DEF Fault
<1>27. CASE Crash
  BY <1>27 DEF Crash
<1>28. CASE Exit
  BY <1>28 DEF Exit
<1>29. CASE Discard
  BY <1>29 DEF Discard
<1>30. CASE UNCHANGED vars
  BY <1>30 DEF vars
<1>. QED BY <1>1, <1>2, <1>3, <1>4, <1>5, <1>6, <1>7, <1>8, <1>9, <1>10,
     <1>11, <1>12, <1>13, <1>14, <1>15, <1>16, <1>17, <1>18, <1>19, <1>20,
     <1>21, <1>22, <1>23, <1>24, <1>25, <1>26, <1>27, <1>28, <1>29, <1>30
     DEF Next, Step, Begin, Finish, Recover, Choices, Environment

\* The process stays at one of its steps, with an attempt and a run that exist.
LEMMA ProcessTypeStep == ASSUME IndInv, [Next]_vars PROVE ProcessTypeOK'
<1>. USE BoundAssumption DEF IndInv, TypeOK, ProcessTypeOK, DiskTypeOK, Attempts, Runs, Pcs,
     Tasks, Finishing, Recovering, Kept, disk, db, process, history
<1>1. CASE StartRun
  BY <1>1 DEF StartRun
<1>2. CASE PrepareAttempt
  BY <1>2 DEF PrepareAttempt
<1>3. CASE MakeCheckpoint
  BY <1>3 DEF MakeCheckpoint
<1>4. CASE CopyFile
  BY <1>4 DEF CopyFile
<1>5. CASE MarkReady
  BY <1>5 DEF MarkReady, Goto
<1>6. CASE Write
  BY <1>6 DEF Write
<1>7. CASE Accept
  BY <1>7 DEF Accept
<1>8. CASE Reject
  BY <1>8 DEF Reject
<1>9. CASE ClearFile
  BY <1>9 DEF ClearFile
<1>10. CASE Cleared
  BY <1>10 DEF Cleared
<1>11. CASE RestoreFile
  BY <1>11 DEF RestoreFile
<1>12. CASE Restored
  BY <1>12 DEF Restored, Goto
<1>13. CASE RemoveFile
  BY <1>13 DEF RemoveFile
<1>14. CASE RemoveDirectory
  BY <1>14 DEF RemoveDirectory, Goto
<1>15. CASE CompleteAttempt
  BY <1>15 DEF CompleteAttempt, Goto
<1>16. CASE FinishRun
  BY <1>16 DEF FinishRun, EndRun
<1>17. CASE InterruptRun
  BY <1>17 DEF InterruptRun, EndRun
<1>18. CASE Abort
  <2>. HIDE DEF ProcessTypeOK, DiskTypeOK, Pcs, Tasks
  <2>1. ASSUME NEW a \in Attempts, IsPending(a) PROVE owner[a] # 0
    <3>1. journal[a] # "none"
      BY <2>1 DEF IsPending, Pending
    <3>2. owner[a] \in Runs
      BY <3>1 DEF OwnerOK
    <3>. QED BY <3>2
  <2>2. PendingOf(0) = {}
    BY <2>1 DEF PendingOf
  <2>3. left' \subseteq Runs
    BY <1>18, <2>2 DEF Abort, ProcessTypeOK
  <2>. QED BY <1>18, <2>3 DEF Abort, ProcessTypeOK, Pcs, Tasks
<1>19. CASE Startup
  BY <1>19 DEF Startup, JustInterrupted
<1>20. CASE RecoverNext
  BY <1>20 DEF RecoverNext
<1>21. CASE CompleteRecovery
  BY <1>21 DEF CompleteRecovery, LeaveRun
<1>22. CASE RecoverWithoutJournal
  <2>. USE <1>22 DEF RecoverWithoutJournal
  <2>1. PICK r \in Runs : \/ Gone
                          \/ /\ LeaveRun(r)
                             /\ UNCHANGED <<pc, task, cur, todo, run, restored, open>>
                          \/ /\ cur' \in there /\ task' = "latest" /\ pc' = "clear"
                             /\ UNCHANGED <<todo, run, fresh, left, restored, open>>
    BY Zenon
  <2>2. CASE Gone
    BY <2>2 DEF Gone
  <2>3. CASE LeaveRun(r) /\ UNCHANGED <<pc, task, cur, todo, run, restored, open>>
    BY <2>3 DEF LeaveRun
  <2>4. CASE /\ cur' \in there /\ task' = "latest" /\ pc' = "clear"
             /\ UNCHANGED <<todo, run, fresh, left, restored, open>>
    BY <2>4
  <2>. QED BY <2>1, <2>2, <2>3, <2>4
<1>23. CASE RestoredLatest
  BY <1>23 DEF RestoredLatest, LeaveRun
<1>24. CASE Recovered
  BY <1>24 DEF Recovered, Goto
<1>25. CASE RecordFailure
  <2>1. CASE Propagate
    BY <1>25, <2>1 DEF RecordFailure, Propagate, Goto
  <2>2. CASE Goto("terminal")
    BY <1>25, <2>2 DEF RecordFailure, Goto
  <2>3. CASE Gone
    BY <1>25, <2>3 DEF RecordFailure, Gone
  <2>. QED BY <1>25, <2>1, <2>2, <2>3 DEF RecordFailure, RecoveryRaised
<1>26. CASE Fault
  BY <1>26 DEF Fault, Goto, Gone, RecoveryRaised, Propagate, LeaveRun
<1>27. CASE Crash
  BY <1>27 DEF Crash, Gone
<1>28. CASE Exit
  BY <1>28 DEF Exit, Gone
<1>29. CASE Discard
  BY <1>29 DEF Discard
<1>30. CASE UNCHANGED vars
  BY <1>30 DEF vars
<1>. QED BY <1>1, <1>2, <1>3, <1>4, <1>5, <1>6, <1>7, <1>8, <1>9, <1>10,
     <1>11, <1>12, <1>13, <1>14, <1>15, <1>16, <1>17, <1>18, <1>19, <1>20,
     <1>21, <1>22, <1>23, <1>24, <1>25, <1>26, <1>27, <1>28, <1>29, <1>30
     DEF Next, Step, Begin, Finish, Recover, Choices, Environment

\* The flags keep their type.
LEMMA FlagsTypeStep == ASSUME IndInv, [Next]_vars PROVE FlagsTypeOK'
<1>. USE Zenon DEF IndInv, TypeOK, FlagsTypeOK, disk, db, process, history
<1>1. CASE StartRun
  BY <1>1 DEF StartRun
<1>2. CASE PrepareAttempt
  BY <1>2 DEF PrepareAttempt
<1>3. CASE MakeCheckpoint
  BY <1>3 DEF MakeCheckpoint
<1>4. CASE CopyFile
  BY <1>4 DEF CopyFile
<1>5. CASE MarkReady
  BY <1>5 DEF MarkReady, Goto
<1>6. CASE Write
  BY <1>6 DEF Write
<1>7. CASE Accept
  BY <1>7 DEF Accept
<1>8. CASE Reject
  BY <1>8 DEF Reject, ReadsBack
<1>9. CASE ClearFile
  BY <1>9 DEF ClearFile
<1>10. CASE Cleared
  BY <1>10 DEF Cleared
<1>11. CASE RestoreFile
  BY <1>11 DEF RestoreFile
<1>12. CASE Restored
  BY <1>12 DEF Restored, Goto
<1>13. CASE RemoveFile
  BY <1>13 DEF RemoveFile
<1>14. CASE RemoveDirectory
  BY <1>14 DEF RemoveDirectory, Goto
<1>15. CASE CompleteAttempt
  BY <1>15 DEF CompleteAttempt, Goto
<1>16. CASE FinishRun
  BY <1>16 DEF FinishRun, EndRun
<1>17. CASE InterruptRun
  BY <1>17 DEF InterruptRun, EndRun
<1>18. CASE Abort
  BY <1>18 DEF Abort
<1>19. CASE Startup
  BY <1>19 DEF Startup
<1>20. CASE RecoverNext
  BY <1>20 DEF RecoverNext, ReadsBack
<1>21. CASE CompleteRecovery
  BY <1>21 DEF CompleteRecovery, LeaveRun
<1>22. CASE RecoverWithoutJournal
  BY <1>22 DEF RecoverWithoutJournal, Gone, LeaveRun, ReadsBack
<1>23. CASE RestoredLatest
  BY <1>23 DEF RestoredLatest, LeaveRun
<1>24. CASE Recovered
  BY <1>24 DEF Recovered, Goto
<1>25. CASE RecordFailure
  BY <1>25 DEF RecordFailure, Propagate, RecoveryRaised, Gone, Goto
<1>26. CASE Fault
  BY <1>26 DEF Fault, Goto, ReadsBack, Gone, RecoveryRaised, Propagate,
     LeaveRun
<1>27. CASE Crash
  BY <1>27 DEF Crash, Gone
<1>28. CASE Exit
  BY <1>28 DEF Exit, Gone
<1>29. CASE Discard
  BY <1>29 DEF Discard
<1>30. CASE UNCHANGED vars
  BY <1>30 DEF vars
<1>. QED BY <1>1, <1>2, <1>3, <1>4, <1>5, <1>6, <1>7, <1>8, <1>9, <1>10,
     <1>11, <1>12, <1>13, <1>14, <1>15, <1>16, <1>17, <1>18, <1>19, <1>20,
     <1>21, <1>22, <1>23, <1>24, <1>25, <1>26, <1>27, <1>28, <1>29, <1>30
     DEF Next, Step, Begin, Finish, Recover, Choices, Environment

\* The history and the bounds keep their types.
LEMMA HistoryTypeStep == ASSUME IndInv, [Next]_vars PROVE HistoryTypeOK'
<1>. USE BoundAssumption DEF IndInv, TypeOK, HistoryTypeOK, DiskTypeOK, disk, db, process, history
<1>1. CASE StartRun
  BY <1>1 DEF StartRun
<1>2. CASE PrepareAttempt
  BY <1>2 DEF PrepareAttempt
<1>3. CASE MakeCheckpoint
  BY <1>3 DEF MakeCheckpoint
<1>4. CASE CopyFile
  BY <1>4 DEF CopyFile
<1>5. CASE MarkReady
  BY <1>5 DEF MarkReady
<1>6. CASE Write
  BY <1>6 DEF Write
<1>7. CASE Accept
  BY <1>7 DEF Accept
<1>8. CASE Reject
  BY <1>8 DEF Reject, ReadsBack
<1>9. CASE ClearFile
  BY <1>9 DEF ClearFile
<1>10. CASE Cleared
  BY <1>10 DEF Cleared
<1>11. CASE RestoreFile
  BY <1>11 DEF RestoreFile
<1>12. CASE Restored
  BY <1>12 DEF Restored
<1>13. CASE RemoveFile
  BY <1>13 DEF RemoveFile
<1>14. CASE RemoveDirectory
  BY <1>14 DEF RemoveDirectory
<1>15. CASE CompleteAttempt
  BY <1>15 DEF CompleteAttempt
<1>16. CASE FinishRun
  BY <1>16 DEF FinishRun, EndRun
<1>17. CASE InterruptRun
  BY <1>17 DEF InterruptRun, EndRun
<1>18. CASE Abort
  BY <1>18 DEF Abort
<1>19. CASE Startup
  BY <1>19 DEF Startup
<1>20. CASE RecoverNext
  BY <1>20 DEF RecoverNext, ReadsBack
<1>21. CASE CompleteRecovery
  BY <1>21 DEF CompleteRecovery
<1>22. CASE RecoverWithoutJournal
  BY <1>22 DEF RecoverWithoutJournal, ReadsBack
<1>23. CASE RestoredLatest
  BY <1>23 DEF RestoredLatest
<1>24. CASE Recovered
  BY <1>24 DEF Recovered
<1>25. CASE RecordFailure
  BY <1>25 DEF RecordFailure
<1>26. CASE Fault
  BY <1>26 DEF Fault, ReadsBack
<1>27. CASE Crash
  BY <1>27 DEF Crash
<1>28. CASE Exit
  BY <1>28 DEF Exit
<1>29. CASE Discard
  BY <1>29, ContentLemma DEF Discard
<1>30. CASE UNCHANGED vars
  BY <1>30 DEF vars
<1>. QED BY <1>1, <1>2, <1>3, <1>4, <1>5, <1>6, <1>7, <1>8, <1>9, <1>10,
     <1>11, <1>12, <1>13, <1>14, <1>15, <1>16, <1>17, <1>18, <1>19, <1>20,
     <1>21, <1>22, <1>23, <1>24, <1>25, <1>26, <1>27, <1>28, <1>29, <1>30
     DEF Next, Step, Begin, Finish, Recover, Choices, Environment

\* Every step keeps the types.
LEMMA TypeStep == ASSUME IndInv, [Next]_vars PROVE TypeOK'
BY DiskTypeStep, RowsTypeStep, ProcessTypeStep, FlagsTypeStep, HistoryTypeStep DEF IndInv, TypeOK

(***************************************************************************)
(* One lemma per part of the invariant                                     *)
(***************************************************************************)

\* The process is at a step of the task it executes.
LEMMA TaskStep == ASSUME IndInv, [Next]_vars PROVE TaskOK'
<1>. USE DEF IndInv, TypeOK, ProcessTypeOK, TaskOK, BeginPcs, FilePcs, OwnTasks, Finishing,
     Recovering, Attempts, Pcs, Tasks, disk, db, process, history
<1>1. CASE StartRun
  BY <1>1 DEF StartRun
<1>2. CASE PrepareAttempt
  BY <1>2 DEF PrepareAttempt
<1>3. CASE MakeCheckpoint
  BY <1>3 DEF MakeCheckpoint
<1>4. CASE CopyFile
  BY <1>4 DEF CopyFile
<1>5. CASE MarkReady
  BY <1>5 DEF MarkReady, Goto
<1>6. CASE Write
  BY <1>6 DEF Write
<1>7. CASE Accept
  BY <1>7 DEF Accept
<1>8. CASE Reject
  BY <1>8 DEF Reject
<1>9. CASE ClearFile
  BY <1>9 DEF ClearFile
<1>10. CASE Cleared
  BY <1>10 DEF Cleared
<1>11. CASE RestoreFile
  BY <1>11 DEF RestoreFile
<1>12. CASE Restored
  BY <1>12 DEF Restored, Goto
<1>13. CASE RemoveFile
  BY <1>13 DEF RemoveFile
<1>14. CASE RemoveDirectory
  BY <1>14 DEF RemoveDirectory, Goto
<1>15. CASE CompleteAttempt
  BY <1>15 DEF CompleteAttempt, Goto
<1>16. CASE FinishRun
  BY <1>16 DEF FinishRun, EndRun
<1>17. CASE InterruptRun
  BY <1>17 DEF InterruptRun, EndRun
<1>18. CASE Abort
  BY <1>18 DEF Abort
<1>19. CASE Startup
  BY <1>19 DEF Startup
<1>20. CASE RecoverNext
  BY <1>20 DEF RecoverNext
<1>21. CASE CompleteRecovery
  BY <1>21 DEF CompleteRecovery
<1>22. CASE RecoverWithoutJournal
  <2>. USE <1>22 DEF RecoverWithoutJournal
  <2>1. PICK r \in Runs : \/ Gone
                          \/ /\ LeaveRun(r)
                             /\ UNCHANGED <<pc, task, cur, todo, run, restored, open>>
                          \/ /\ cur' \in there /\ task' = "latest" /\ pc' = "clear"
                             /\ UNCHANGED <<todo, run, fresh, left, restored, open>>
    BY Zenon
  <2>2. CASE Gone
    BY <2>2 DEF Gone
  <2>3. CASE LeaveRun(r) /\ UNCHANGED <<pc, task, cur, todo, run, restored, open>>
    BY <2>3 DEF LeaveRun
  <2>4. CASE /\ cur' \in there /\ task' = "latest" /\ pc' = "clear"
             /\ UNCHANGED <<todo, run, fresh, left, restored, open>>
    BY <2>4 DEF DiskTypeOK
  <2>. QED BY <2>1, <2>2, <2>3, <2>4
<1>23. CASE RestoredLatest
  BY <1>23 DEF RestoredLatest
<1>24. CASE Recovered
  BY <1>24 DEF Recovered, Goto
<1>25. CASE RecordFailure
  BY <1>25 DEF RecordFailure, Propagate, RecoveryRaised, Gone, Goto
<1>26. CASE Fault
  BY <1>26 DEF Fault, Goto, Gone, RecoveryRaised, Propagate
<1>27. CASE Crash
  BY <1>27 DEF Crash, Gone
<1>28. CASE Exit
  BY <1>28 DEF Exit, Gone
<1>29. CASE Discard
  BY <1>29 DEF Discard
<1>30. CASE UNCHANGED vars
  BY <1>30 DEF vars
<1>. QED BY <1>1, <1>2, <1>3, <1>4, <1>5, <1>6, <1>7, <1>8, <1>9, <1>10,
     <1>11, <1>12, <1>13, <1>14, <1>15, <1>16, <1>17, <1>18, <1>19, <1>20,
     <1>21, <1>22, <1>23, <1>24, <1>25, <1>26, <1>27, <1>28, <1>29, <1>30
     DEF Next, Step, Begin, Finish, Recover, Choices, Environment

\* Journal and process agree.
LEMMA RowStep == ASSUME IndInv, [Next]_vars PROVE RowOK'
<1>. USE DEF IndInv, TypeOK, RowsTypeOK, ProcessTypeOK, TaskOK, RowOK, BeginPcs, FilePcs,
     OwnTasks, Finishing, Recovering, Attempts, IsPending, Pending, Accepted, disk, db, process, history
<1>1. CASE StartRun
  BY <1>1 DEF StartRun
<1>2. CASE PrepareAttempt
  BY <1>2 DEF PrepareAttempt
<1>3. CASE MakeCheckpoint
  BY <1>3 DEF MakeCheckpoint
<1>4. CASE CopyFile
  BY <1>4 DEF CopyFile
<1>5. CASE MarkReady
  BY <1>5 DEF MarkReady, Goto
<1>6. CASE Write
  BY <1>6 DEF Write
<1>7. CASE Accept
  BY <1>7 DEF Accept
<1>8. CASE Reject
  BY <1>8 DEF Reject
<1>9. CASE ClearFile
  BY <1>9 DEF ClearFile
<1>10. CASE Cleared
  BY <1>10 DEF Cleared
<1>11. CASE RestoreFile
  BY <1>11 DEF RestoreFile
<1>12. CASE Restored
  BY <1>12 DEF Restored, Goto
<1>13. CASE RemoveFile
  BY <1>13 DEF RemoveFile
<1>14. CASE RemoveDirectory
  BY <1>14 DEF RemoveDirectory, Goto
<1>15. CASE CompleteAttempt
  BY <1>15 DEF CompleteAttempt, Goto
<1>16. CASE FinishRun
  BY <1>16 DEF FinishRun, EndRun
<1>17. CASE InterruptRun
  BY <1>17 DEF InterruptRun, EndRun
<1>18. CASE Abort
  BY <1>18 DEF Abort
<1>19. CASE Startup
  BY <1>19 DEF Startup
<1>20. CASE RecoverNext
  BY <1>20 DEF RecoverNext, Accepted, CanDrop, IsOldest, PendingOf
<1>21. CASE CompleteRecovery
  BY <1>21 DEF CompleteRecovery, Closed
<1>22. CASE RecoverWithoutJournal
  BY <1>22 DEF RecoverWithoutJournal, Gone
<1>23. CASE RestoredLatest
  BY <1>23 DEF RestoredLatest
<1>24. CASE Recovered
  BY <1>24 DEF Recovered, Goto
<1>25. CASE RecordFailure
  BY <1>25 DEF RecordFailure, Propagate, RecoveryRaised, Gone, Goto, Closed
<1>26. CASE Fault
  BY <1>26 DEF Fault, Goto, Gone, RecoveryRaised, Propagate
<1>27. CASE Crash
  BY <1>27 DEF Crash, Gone
<1>28. CASE Exit
  BY <1>28 DEF Exit, Gone
<1>29. CASE Discard
  BY <1>29 DEF Discard
<1>30. CASE UNCHANGED vars
  BY <1>30 DEF vars
<1>. QED BY <1>1, <1>2, <1>3, <1>4, <1>5, <1>6, <1>7, <1>8, <1>9, <1>10,
     <1>11, <1>12, <1>13, <1>14, <1>15, <1>16, <1>17, <1>18, <1>19, <1>20,
     <1>21, <1>22, <1>23, <1>24, <1>25, <1>26, <1>27, <1>28, <1>29, <1>30
     DEF Next, Step, Begin, Finish, Recover, Choices, Environment

\* Steps that are no exceptions lead to no failure but a missing checkpoint.
LEMMA QuietStep == ASSUME IndInv, [Next]_vars PROVE QuietOK'
<1>. USE BoundAssumption DEF IndInv, TypeOK, HistoryTypeOK, TaskOK, QuietOK, BeginPcs, FilePcs,
     OwnTasks, Recovering, disk, db, process, history
<1>1. CASE StartRun
  BY <1>1 DEF StartRun
<1>2. CASE PrepareAttempt
  BY <1>2 DEF PrepareAttempt
<1>3. CASE MakeCheckpoint
  BY <1>3 DEF MakeCheckpoint
<1>4. CASE CopyFile
  BY <1>4 DEF CopyFile
<1>5. CASE MarkReady
  BY <1>5 DEF MarkReady, Goto
<1>6. CASE Write
  BY <1>6 DEF Write
<1>7. CASE Accept
  BY <1>7 DEF Accept
<1>8. CASE Reject
  BY <1>8 DEF Reject
<1>9. CASE ClearFile
  BY <1>9 DEF ClearFile
<1>10. CASE Cleared
  BY <1>10 DEF Cleared
<1>11. CASE RestoreFile
  BY <1>11 DEF RestoreFile
<1>12. CASE Restored
  BY <1>12 DEF Restored, Goto
<1>13. CASE RemoveFile
  BY <1>13 DEF RemoveFile
<1>14. CASE RemoveDirectory
  BY <1>14 DEF RemoveDirectory, Goto
<1>15. CASE CompleteAttempt
  BY <1>15 DEF CompleteAttempt, Goto
<1>16. CASE FinishRun
  BY <1>16 DEF FinishRun, EndRun
<1>17. CASE InterruptRun
  BY <1>17 DEF InterruptRun, EndRun
<1>18. CASE Abort
  BY <1>18 DEF Abort
<1>19. CASE Startup
  BY <1>19 DEF Startup
<1>20. CASE RecoverNext
  BY <1>20 DEF RecoverNext
<1>21. CASE CompleteRecovery
  BY <1>21 DEF CompleteRecovery
<1>22. CASE RecoverWithoutJournal
  BY <1>22 DEF RecoverWithoutJournal, Gone
<1>23. CASE RestoredLatest
  BY <1>23 DEF RestoredLatest
<1>24. CASE Recovered
  BY <1>24 DEF Recovered, Goto
<1>25. CASE RecordFailure
  BY <1>25 DEF RecordFailure, Propagate, RecoveryRaised, Gone, Goto
<1>26. CASE Fault
  BY <1>26 DEF Fault, Goto, Gone, RecoveryRaised, Propagate
<1>27. CASE Crash
  BY <1>27 DEF Crash, Gone
<1>28. CASE Exit
  BY <1>28 DEF Exit, Gone
<1>29. CASE Discard
  BY <1>29 DEF Discard
<1>30. CASE UNCHANGED vars
  BY <1>30 DEF vars
<1>. QED BY <1>1, <1>2, <1>3, <1>4, <1>5, <1>6, <1>7, <1>8, <1>9, <1>10,
     <1>11, <1>12, <1>13, <1>14, <1>15, <1>16, <1>17, <1>18, <1>19, <1>20,
     <1>21, <1>22, <1>23, <1>24, <1>25, <1>26, <1>27, <1>28, <1>29, <1>30
     DEF Next, Step, Begin, Finish, Recover, Choices, Environment

\* Journal and attempt move together.
LEMMA StatusStep == ASSUME IndInv, [Next]_vars PROVE StatusOK'
<1>. USE DEF IndInv, TypeOK, RowsTypeOK, TaskOK, RowOK, StatusOK, BeginPcs, FilePcs, OwnTasks,
     Finishing, Recovering, IsPending, Pending, Final, disk, db, process, history
<1>1. CASE StartRun
  BY <1>1 DEF StartRun
<1>2. CASE PrepareAttempt
  BY <1>2 DEF PrepareAttempt
<1>3. CASE MakeCheckpoint
  BY <1>3 DEF MakeCheckpoint
<1>4. CASE CopyFile
  BY <1>4 DEF CopyFile
<1>5. CASE MarkReady
  BY <1>5 DEF MarkReady
<1>6. CASE Write
  BY <1>6 DEF Write
<1>7. CASE Accept
  BY <1>7 DEF Accept
<1>8. CASE Reject
  BY <1>8 DEF Reject
<1>9. CASE ClearFile
  BY <1>9 DEF ClearFile
<1>10. CASE Cleared
  BY <1>10 DEF Cleared
<1>11. CASE RestoreFile
  BY <1>11 DEF RestoreFile
<1>12. CASE Restored
  BY <1>12 DEF Restored
<1>13. CASE RemoveFile
  BY <1>13 DEF RemoveFile
<1>14. CASE RemoveDirectory
  BY <1>14 DEF RemoveDirectory
<1>15. CASE CompleteAttempt
  BY <1>15 DEF CompleteAttempt
<1>16. CASE FinishRun
  BY <1>16 DEF FinishRun, EndRun
<1>17. CASE InterruptRun
  BY <1>17 DEF InterruptRun, EndRun
<1>18. CASE Abort
  BY <1>18 DEF Abort
<1>19. CASE Startup
  BY <1>19 DEF Startup
<1>20. CASE RecoverNext
  BY <1>20 DEF RecoverNext
<1>21. CASE CompleteRecovery
  BY <1>21 DEF CompleteRecovery, Closed
<1>22. CASE RecoverWithoutJournal
  BY <1>22 DEF RecoverWithoutJournal
<1>23. CASE RestoredLatest
  BY <1>23 DEF RestoredLatest
<1>24. CASE Recovered
  BY <1>24 DEF Recovered
<1>25. CASE RecordFailure
  BY <1>25 DEF RecordFailure, Closed
<1>26. CASE Fault
  BY <1>26 DEF Fault
<1>27. CASE Crash
  BY <1>27 DEF Crash
<1>28. CASE Exit
  BY <1>28 DEF Exit
<1>29. CASE Discard
  BY <1>29 DEF Discard
<1>30. CASE UNCHANGED vars
  BY <1>30 DEF vars
<1>. QED BY <1>1, <1>2, <1>3, <1>4, <1>5, <1>6, <1>7, <1>8, <1>9, <1>10,
     <1>11, <1>12, <1>13, <1>14, <1>15, <1>16, <1>17, <1>18, <1>19, <1>20,
     <1>21, <1>22, <1>23, <1>24, <1>25, <1>26, <1>27, <1>28, <1>29, <1>30
     DEF Next, Step, Begin, Finish, Recover, Choices, Environment

\* Checkpoints go before their journal is settled.
LEMMA CheckpointStep == ASSUME IndInv, [Next]_vars PROVE CheckpointOK'
<1>. USE DEF IndInv, TypeOK, DiskTypeOK, RowsTypeOK, TaskOK, RowOK, CheckpointOK,
     CheckpointsHaveJournals, BeginPcs, FilePcs, OwnTasks, Finishing, Recovering, IsPending,
     Pending, disk, db, process, history
<1>1. CASE StartRun
  BY <1>1 DEF StartRun
<1>2. CASE PrepareAttempt
  BY <1>2 DEF PrepareAttempt
<1>3. CASE MakeCheckpoint
  BY <1>3 DEF MakeCheckpoint
<1>4. CASE CopyFile
  BY <1>4 DEF CopyFile
<1>5. CASE MarkReady
  BY <1>5 DEF MarkReady, Goto
<1>6. CASE Write
  BY <1>6 DEF Write
<1>7. CASE Accept
  BY <1>7 DEF Accept
<1>8. CASE Reject
  BY <1>8 DEF Reject
<1>9. CASE ClearFile
  BY <1>9 DEF ClearFile
<1>10. CASE Cleared
  BY <1>10 DEF Cleared
<1>11. CASE RestoreFile
  BY <1>11 DEF RestoreFile
<1>12. CASE Restored
  BY <1>12 DEF Restored, Goto
<1>13. CASE RemoveFile
  BY <1>13 DEF RemoveFile
<1>14. CASE RemoveDirectory
  BY <1>14 DEF RemoveDirectory, Goto
<1>15. CASE CompleteAttempt
  BY <1>15 DEF CompleteAttempt, Goto
<1>16. CASE FinishRun
  BY <1>16 DEF FinishRun, EndRun
<1>17. CASE InterruptRun
  BY <1>17 DEF InterruptRun, EndRun
<1>18. CASE Abort
  BY <1>18 DEF Abort
<1>19. CASE Startup
  BY <1>19 DEF Startup
<1>20. CASE RecoverNext
  BY <1>20 DEF RecoverNext
<1>21. CASE CompleteRecovery
  BY <1>21 DEF CompleteRecovery
<1>22. CASE RecoverWithoutJournal
  BY <1>22 DEF RecoverWithoutJournal, Gone
<1>23. CASE RestoredLatest
  BY <1>23 DEF RestoredLatest
<1>24. CASE Recovered
  BY <1>24 DEF Recovered, Goto
<1>25. CASE RecordFailure
  BY <1>25 DEF RecordFailure, Propagate, RecoveryRaised, Gone, Goto
<1>26. CASE Fault
  BY <1>26 DEF Fault, Goto, Gone, RecoveryRaised, Propagate
<1>27. CASE Crash
  BY <1>27 DEF Crash, Gone
<1>28. CASE Exit
  BY <1>28 DEF Exit, Gone
<1>29. CASE Discard
  BY <1>29 DEF Discard
<1>30. CASE UNCHANGED vars
  BY <1>30 DEF vars
<1>. QED BY <1>1, <1>2, <1>3, <1>4, <1>5, <1>6, <1>7, <1>8, <1>9, <1>10,
     <1>11, <1>12, <1>13, <1>14, <1>15, <1>16, <1>17, <1>18, <1>19, <1>20,
     <1>21, <1>22, <1>23, <1>24, <1>25, <1>26, <1>27, <1>28, <1>29, <1>30
     DEF Next, Step, Begin, Finish, Recover, Choices, Environment

\* A run begins an attempt only when it has none pending.
LEMMA OwnerStep == ASSUME IndInv, [Next]_vars PROVE OwnerOK'
<1>. USE BoundAssumption DEF IndInv, TypeOK, RowsTypeOK, ProcessTypeOK, TaskOK, RowOK, OwnerOK,
     PendingOf, IsPending, Pending, Final, BeginPcs, FilePcs, OwnTasks, Finishing, Recovering,
     Attempts, Runs, disk, db, process, history
<1>1. CASE StartRun
  <2>1. PICK r \in Runs : runs[r] = "none" /\ runs' = [runs EXCEPT ![r] = "RUNNING"] /\ run' = r
    BY <1>1 DEF StartRun
  <2>2. pc' = "ready" /\ UNCHANGED <<journal, owner, cur, task>>
    BY <1>1 DEF StartRun
  <2>3. \A a \in Attempts : journal[a] # "none" => owner[a] # r
    BY <2>1
  <2>4. PendingOf(r)' = {}
    BY <2>2, <2>3
  <2>5. r # 0 /\ runs'[r] = "RUNNING" /\ \A q \in Runs : runs[q] # "none" => runs'[q] # "none"
    BY <2>1
  <2> QED BY <2>1, <2>2, <2>4, <2>5
<1>2. CASE PrepareAttempt
  BY <1>2 DEF PrepareAttempt
<1>3. CASE MakeCheckpoint
  BY <1>3 DEF MakeCheckpoint
<1>4. CASE CopyFile
  BY <1>4 DEF CopyFile
<1>5. CASE MarkReady
  BY <1>5 DEF MarkReady, Goto
<1>6. CASE Write
  BY <1>6 DEF Write
<1>7. CASE Accept
  BY <1>7 DEF Accept
<1>8. CASE Reject
  BY <1>8 DEF Reject
<1>9. CASE ClearFile
  BY <1>9 DEF ClearFile
<1>10. CASE Cleared
  BY <1>10 DEF Cleared
<1>11. CASE RestoreFile
  BY <1>11 DEF RestoreFile
<1>12. CASE Restored
  BY <1>12 DEF Restored, Goto
<1>13. CASE RemoveFile
  BY <1>13 DEF RemoveFile
<1>14. CASE RemoveDirectory
  BY <1>14 DEF RemoveDirectory, Goto
<1>15. CASE CompleteAttempt
  BY <1>15 DEF CompleteAttempt, Goto
<1>16. CASE FinishRun
  BY <1>16 DEF FinishRun, EndRun
<1>17. CASE InterruptRun
  BY <1>17 DEF InterruptRun, EndRun
<1>18. CASE Abort
  BY <1>18 DEF Abort
<1>19. CASE Startup
  BY <1>19 DEF Startup, JustInterrupted
<1>20. CASE RecoverNext
  BY <1>20 DEF RecoverNext, PendingOf
<1>21. CASE CompleteRecovery
  BY <1>21 DEF CompleteRecovery, LeaveRun
<1>22. CASE RecoverWithoutJournal
  BY <1>22 DEF RecoverWithoutJournal, Gone, LeaveRun
<1>23. CASE RestoredLatest
  BY <1>23 DEF RestoredLatest, LeaveRun
<1>24. CASE Recovered
  BY <1>24 DEF Recovered, Goto
<1>25. CASE RecordFailure
  BY <1>25 DEF RecordFailure, Propagate, RecoveryRaised, Gone, Goto
<1>26. CASE Fault
  BY <1>26 DEF Fault, Goto, Gone, RecoveryRaised, Propagate, LeaveRun
<1>27. CASE Crash
  BY <1>27 DEF Crash, Gone
<1>28. CASE Exit
  BY <1>28 DEF Exit, Gone
<1>29. CASE Discard
  BY <1>29 DEF Discard
<1>30. CASE UNCHANGED vars
  BY <1>30 DEF vars
<1>. QED BY <1>1, <1>2, <1>3, <1>4, <1>5, <1>6, <1>7, <1>8, <1>9, <1>10,
     <1>11, <1>12, <1>13, <1>14, <1>15, <1>16, <1>17, <1>18, <1>19, <1>20,
     <1>21, <1>22, <1>23, <1>24, <1>25, <1>26, <1>27, <1>28, <1>29, <1>30
     DEF Next, Step, Begin, Finish, Recover, Choices, Environment

(***************************************************************************)
(* The theorems                                                            *)
(***************************************************************************)
\* Journal rows, attempts, checkpoint directories and the process agree.
THEOREM InductiveInvariant == Spec => []IndInv
<1>1. Init => IndInv
  <2>. SUFFICES ASSUME Init PROVE IndInv
    OBVIOUS
  <2>1. TypeOK
    BY TypeInit
  <2>2. TaskOK /\ RowOK /\ QuietOK
    BY DEF Init, TaskOK, RowOK, QuietOK, BeginPcs, FilePcs
  <2>3. StatusOK /\ CheckpointOK
    BY DEF Init, StatusOK, CheckpointOK, CheckpointsHaveJournals
  <2>4. OwnerOK
    BY DEF Init, OwnerOK, BeginPcs, FilePcs
  <2>. QED BY <2>1, <2>2, <2>3, <2>4 DEF IndInv
<1>2. IndInv /\ [Next]_vars => IndInv'
  <2>. SUFFICES ASSUME IndInv, [Next]_vars PROVE IndInv'
    OBVIOUS
  <2>1. TypeOK'
    BY TypeStep
  <2>. QED BY <2>1, TaskStep, RowStep, QuietStep, StatusStep, CheckpointStep,
       OwnerStep DEF IndInv
<1>. QED BY <1>1, <1>2, PTL DEF Spec

\* Every variable keeps its type, for any files and any bound.
THEOREM TypeCorrect == Spec => []TypeOK
<1>1. IndInv => TypeOK
  BY DEF IndInv
<1>. QED BY <1>1, InductiveInvariant, PTL

\* An attempt has passed if and only if its files were committed.
THEOREM JournalAndAttemptsAgree == Spec => []PassIffCommitted
<1>1. IndInv => PassIffCommitted
  BY DEF IndInv, TypeOK, RowsTypeOK, StatusOK, PassIffCommitted, IsPending, Pending, Final
<1>. QED BY <1>1, InductiveInvariant, PTL

\* No checkpoint outlives its journal.
THEOREM NoCheckpointIsLeftOver == Spec => []CheckpointsHaveJournals
<1>1. IndInv => CheckpointsHaveJournals
  BY DEF IndInv, CheckpointOK
<1>. QED BY <1>1, InductiveInvariant, PTL

\* Attempts of a run do not nest.
THEOREM AttemptsAreSequential == Spec => []AttemptsDoNotNest
<1>1. IndInv => AttemptsDoNotNest
  BY DEF IndInv, OwnerOK, TaskOK, RowOK, AttemptsDoNotNest, BeginPcs,
     PendingOf, IsPending, Pending
<1>. QED BY <1>1, InductiveInvariant, PTL

\* A step leaves settled journals and closed attempts alone.
LEMMA DecisionStep == ASSUME IndInv, [Next]_vars PROVE \A a \in Attempts :
         /\ journal[a] \in Final => journal'[a] = journal[a]
         /\ attempt[a] \in {"PASS", "FAILED", "BLOCKED"} => attempt'[a] = attempt[a]
<1>. USE DEF IndInv, TypeOK, RowsTypeOK, TaskOK, RowOK, StatusOK, BeginPcs, FilePcs, OwnTasks,
     Finishing, Recovering, IsPending, Pending, Final, disk, db, process, history
<1>1. CASE StartRun
  BY <1>1 DEF StartRun
<1>2. CASE PrepareAttempt
  BY <1>2 DEF PrepareAttempt
<1>3. CASE MakeCheckpoint
  BY <1>3 DEF MakeCheckpoint
<1>4. CASE CopyFile
  BY <1>4 DEF CopyFile
<1>5. CASE MarkReady
  BY <1>5 DEF MarkReady
<1>6. CASE Write
  BY <1>6 DEF Write
<1>7. CASE Accept
  BY <1>7 DEF Accept
<1>8. CASE Reject
  BY <1>8 DEF Reject
<1>9. CASE ClearFile
  BY <1>9 DEF ClearFile
<1>10. CASE Cleared
  BY <1>10 DEF Cleared
<1>11. CASE RestoreFile
  BY <1>11 DEF RestoreFile
<1>12. CASE Restored
  BY <1>12 DEF Restored
<1>13. CASE RemoveFile
  BY <1>13 DEF RemoveFile
<1>14. CASE RemoveDirectory
  BY <1>14 DEF RemoveDirectory
<1>15. CASE CompleteAttempt
  BY <1>15 DEF CompleteAttempt
<1>16. CASE FinishRun
  BY <1>16 DEF FinishRun, EndRun
<1>17. CASE InterruptRun
  BY <1>17 DEF InterruptRun, EndRun
<1>18. CASE Abort
  BY <1>18 DEF Abort
<1>19. CASE Startup
  BY <1>19 DEF Startup
<1>20. CASE RecoverNext
  BY <1>20 DEF RecoverNext
<1>21. CASE CompleteRecovery
  BY <1>21 DEF CompleteRecovery, Closed
<1>22. CASE RecoverWithoutJournal
  BY <1>22 DEF RecoverWithoutJournal
<1>23. CASE RestoredLatest
  BY <1>23 DEF RestoredLatest
<1>24. CASE Recovered
  BY <1>24 DEF Recovered
<1>25. CASE RecordFailure
  BY <1>25 DEF RecordFailure, Closed
<1>26. CASE Fault
  BY <1>26 DEF Fault
<1>27. CASE Crash
  BY <1>27 DEF Crash
<1>28. CASE Exit
  BY <1>28 DEF Exit
<1>29. CASE Discard
  BY <1>29 DEF Discard
<1>30. CASE UNCHANGED vars
  BY <1>30 DEF vars
<1>. QED BY <1>1, <1>2, <1>3, <1>4, <1>5, <1>6, <1>7, <1>8, <1>9, <1>10,
     <1>11, <1>12, <1>13, <1>14, <1>15, <1>16, <1>17, <1>18, <1>19, <1>20,
     <1>21, <1>22, <1>23, <1>24, <1>25, <1>26, <1>27, <1>28, <1>29, <1>30
     DEF Next, Step, Begin, Finish, Recover, Choices, Environment

\* A settled journal and a closed attempt are never revised.
THEOREM DecisionsAreFinal == Spec => DecisionIsFinal
<1>1. IndInv /\ [Next]_vars =>
        [\A a \in Attempts :
           /\ journal[a] \in Final => journal'[a] = journal[a]
           /\ attempt[a] \in {"PASS", "FAILED", "BLOCKED"} => attempt'[a] = attempt[a]]_vars
  BY DecisionStep
<1>. QED BY <1>1, InductiveInvariant, PTL DEF Spec, DecisionIsFinal

\* Without exceptions no step settles an accepted attempt otherwise.
LEMMA AcceptedStep == ASSUME IndInv, [Next]_vars PROVE \A a \in Attempts :
         journal[a] = "FINALIZING_COMMIT" /\ used.faults = 0
            => journal'[a] \in {"FINALIZING_COMMIT", "COMMITTED"}
<1>. USE DEF IndInv, TypeOK, RowsTypeOK, TaskOK, RowOK, QuietOK, BeginPcs, FilePcs, OwnTasks,
     Finishing, Recovering, IsPending, Accepted, Pending, disk, db, process, history
<1>1. CASE StartRun
  BY <1>1 DEF StartRun
<1>2. CASE PrepareAttempt
  BY <1>2 DEF PrepareAttempt
<1>3. CASE MakeCheckpoint
  BY <1>3 DEF MakeCheckpoint
<1>4. CASE CopyFile
  BY <1>4 DEF CopyFile
<1>5. CASE MarkReady
  BY <1>5 DEF MarkReady
<1>6. CASE Write
  BY <1>6 DEF Write
<1>7. CASE Accept
  BY <1>7 DEF Accept
<1>8. CASE Reject
  BY <1>8 DEF Reject
<1>9. CASE ClearFile
  BY <1>9 DEF ClearFile
<1>10. CASE Cleared
  BY <1>10 DEF Cleared
<1>11. CASE RestoreFile
  BY <1>11 DEF RestoreFile
<1>12. CASE Restored
  BY <1>12 DEF Restored
<1>13. CASE RemoveFile
  BY <1>13 DEF RemoveFile
<1>14. CASE RemoveDirectory
  BY <1>14 DEF RemoveDirectory
<1>15. CASE CompleteAttempt
  BY <1>15 DEF CompleteAttempt
<1>16. CASE FinishRun
  BY <1>16 DEF FinishRun, EndRun
<1>17. CASE InterruptRun
  BY <1>17 DEF InterruptRun, EndRun
<1>18. CASE Abort
  BY <1>18 DEF Abort
<1>19. CASE Startup
  BY <1>19 DEF Startup
<1>20. CASE RecoverNext
  BY <1>20 DEF RecoverNext, Accepted
<1>21. CASE CompleteRecovery
  BY <1>21 DEF CompleteRecovery
<1>22. CASE RecoverWithoutJournal
  BY <1>22 DEF RecoverWithoutJournal
<1>23. CASE RestoredLatest
  BY <1>23 DEF RestoredLatest
<1>24. CASE Recovered
  BY <1>24 DEF Recovered
<1>25. CASE RecordFailure
  BY <1>25 DEF RecordFailure
<1>26. CASE Fault
  BY <1>26 DEF Fault
<1>27. CASE Crash
  BY <1>27 DEF Crash
<1>28. CASE Exit
  BY <1>28 DEF Exit
<1>29. CASE Discard
  BY <1>29 DEF Discard
<1>30. CASE UNCHANGED vars
  BY <1>30 DEF vars
<1>. QED BY <1>1, <1>2, <1>3, <1>4, <1>5, <1>6, <1>7, <1>8, <1>9, <1>10,
     <1>11, <1>12, <1>13, <1>14, <1>15, <1>16, <1>17, <1>18, <1>19, <1>20,
     <1>21, <1>22, <1>23, <1>24, <1>25, <1>26, <1>27, <1>28, <1>29, <1>30
     DEF Next, Step, Begin, Finish, Recover, Choices, Environment

\* Crashes do not undo accepted work, however many there are and wherever they hit.
THEOREM AcceptedWorkIsCommitted == Spec => AcceptedWorkSurvivesCrashes
<1>1. IndInv /\ [Next]_vars =>
        [\A a \in Attempts :
           journal[a] = "FINALIZING_COMMIT" /\ used.faults = 0
              => journal'[a] \in {"FINALIZING_COMMIT", "COMMITTED"}]_vars
  BY AcceptedStep
<1>. QED BY <1>1, InductiveInvariant, PTL DEF Spec, AcceptedWorkSurvivesCrashes

\* The three records of one attempt (its journal, its history row and its
\* checkpoint directory) agree in every reachable state, one attempt at a time.
THEOREM RecordsAlwaysAgree == Spec => []RecordsAgree
  BY TypeCorrect, JournalAndAttemptsAgree, NoCheckpointIsLeftOver, AttemptsAreSequential, PTL
     DEF RecordsAgree

\* No step takes back a verdict, and no crash the work it accepted.
THEOREM DecisionsAlwaysHold == Spec => DecisionsHold
  BY DecisionsAreFinal, AcceptedWorkIsCommitted DEF DecisionsHold

(***************************************************************************)
(* The files: what workspace and checkpoints hold                          *)
(***************************************************************************)
\* The process knows its run; a run that goes on is not to be recovered.
RunOK ==
  /\ pc \in {"down", "idle"} => run = 0
  /\ pc \in {"abort", "terminal"} => run # 0
  /\ run # 0 => runs[run] = "RUNNING"
  /\ pc = "idle" \/ run # 0 => fresh = {}

\* A sandbox session belongs to one run.
SessionOK ==
  ~Direct => \A r \in Runs : runs[r] = "RUNNING" =>
               session = "RUNNING" /\ \A q \in Runs : runs[q] = "RUNNING" => q = r

\* A run whose journals are to be recovered has one.
LeftOK ==
  pc = "recovering" \/ (pc \in FilePcs /\ task \in Recovering)
    => \A r \in left : PendingOf(r) # {}

\* Where a file is written or deleted there is a checkpoint.
HeldOK == pc \in {"copy", "work", "clear", "restore", "remove"} => cur \in there

\* A checkpoint is that of the only pending journal, and the run that goes on, or
\* was interrupted, is its run.
SoleOK ==
  ~hurt => \A b \in Attempts : IsPending(b) =>
    /\ \A a \in there : a = b
    /\ run # 0 => owner[b] = run
    /\ ~Direct => \A r \in Runs : runs[r] = "RUNNING" \/ r \in fresh => owner[b] = r

\* What workspace and checkpoint hold at each step.
PhaseOK ==
  ~hurt =>
    /\ pc \in {"checkpoint", "copy"} => Same(ws, good)
    /\ pc = "copy" => \A p \in Kept : p \in todo \/ copy[cur][p] = ws[p]
    /\ pc \in {"work", "clear", "restore"} => Same(copy[cur], good)
    /\ pc \in {"clear", "restore"} => task # "latest"
    /\ pc = "restore" => \A p \in Kept : p \in todo \/ ws[p] = copy[cur][p]
    /\ pc \in {"remove", "settle"} /\ task \notin {"commit", "recommit"} => Same(ws, good)

\* What a journal says of the workspace.
SafeOK ==
  ~hurt =>
    /\ (\A a \in Attempts : ~IsPending(a)) => Same(ws, good)
    /\ \A a \in Attempts :
         /\ Accepted(a) => Same(ws, decided)
         /\ CanDrop(a) /\ a \notin there => Same(ws, good)

FilesInv == RunOK /\ SessionOK /\ LeftOK /\ HeldOK /\ SoleOK /\ PhaseOK /\ SafeOK

\* A run is RUNNING from its start to its end, and no start finds one that goes on.
LEMMA RunStep == ASSUME IndInv, RunOK, [Next]_vars PROVE RunOK'
<1>. USE BoundAssumption DEF IndInv, TypeOK, RowsTypeOK, ProcessTypeOK, TaskOK, OwnerOK, RunOK,
     BeginPcs, FilePcs, OwnTasks, Finishing, Recovering, Runs, disk, db, process, history
<1>1. CASE StartRun
  BY <1>1 DEF StartRun
<1>2. CASE PrepareAttempt
  BY <1>2 DEF PrepareAttempt
<1>3. CASE MakeCheckpoint
  BY <1>3 DEF MakeCheckpoint
<1>4. CASE CopyFile
  BY <1>4 DEF CopyFile
<1>5. CASE MarkReady
  BY <1>5 DEF MarkReady, Goto
<1>6. CASE Write
  BY <1>6 DEF Write
<1>7. CASE Accept
  BY <1>7 DEF Accept
<1>8. CASE Reject
  BY <1>8 DEF Reject, ReadsBack
<1>9. CASE ClearFile
  BY <1>9 DEF ClearFile
<1>10. CASE Cleared
  BY <1>10 DEF Cleared
<1>11. CASE RestoreFile
  BY <1>11 DEF RestoreFile
<1>12. CASE Restored
  BY <1>12 DEF Restored, Goto
<1>13. CASE RemoveFile
  BY <1>13 DEF RemoveFile
<1>14. CASE RemoveDirectory
  BY <1>14 DEF RemoveDirectory, Goto
<1>15. CASE CompleteAttempt
  BY <1>15 DEF CompleteAttempt, Goto
<1>16. CASE FinishRun
  BY <1>16 DEF FinishRun, EndRun, SettledSession
<1>17. CASE InterruptRun
  BY <1>17 DEF InterruptRun, EndRun, SettledSession
<1>18. CASE Abort
  BY <1>18 DEF Abort
<1>19. CASE Startup
  BY <1>19 DEF Startup, JustInterrupted
<1>20. CASE RecoverNext
  BY <1>20 DEF RecoverNext, ReadsBack, Accepted
<1>21. CASE CompleteRecovery
  BY <1>21 DEF CompleteRecovery, LeaveRun, Closed
<1>22. CASE RecoverWithoutJournal
  BY <1>22 DEF RecoverWithoutJournal, Gone, LeaveRun
<1>23. CASE RestoredLatest
  BY <1>23 DEF RestoredLatest, LeaveRun
<1>24. CASE Recovered
  BY <1>24 DEF Recovered, Goto
<1>25. CASE RecordFailure
  BY <1>25 DEF RecordFailure, Propagate, RecoveryRaised, Gone, Goto, Closed
<1>26. CASE Fault
  BY <1>26 DEF Fault, Goto, Gone, RecoveryRaised, Propagate, LeaveRun, ReadsBack
<1>27. CASE Crash
  BY <1>27 DEF Crash, Gone
<1>28. CASE Exit
  BY <1>28 DEF Exit, Gone
<1>29. CASE Discard
  BY <1>29 DEF Discard
<1>30. CASE UNCHANGED vars
  BY <1>30 DEF vars
<1>. QED BY <1>1, <1>2, <1>3, <1>4, <1>5, <1>6, <1>7, <1>8, <1>9, <1>10,
     <1>11, <1>12, <1>13, <1>14, <1>15, <1>16, <1>17, <1>18, <1>19, <1>20,
     <1>21, <1>22, <1>23, <1>24, <1>25, <1>26, <1>27, <1>28, <1>29, <1>30
     DEF Next, Step, Begin, Finish, Recover, Choices, Environment

\* Two runs never have the sandbox session.
LEMMA SessionStep == ASSUME IndInv, RunOK, SessionOK, [Next]_vars PROVE SessionOK'
<1>. USE BoundAssumption DEF IndInv, TypeOK, RowsTypeOK, ProcessTypeOK, TaskOK, OwnerOK, RunOK,
     SessionOK, BeginPcs, Runs, disk, db, process, history
<1>1. CASE StartRun
  BY <1>1 DEF StartRun
<1>2. CASE PrepareAttempt
  BY <1>2 DEF PrepareAttempt
<1>3. CASE MakeCheckpoint
  BY <1>3 DEF MakeCheckpoint
<1>4. CASE CopyFile
  BY <1>4 DEF CopyFile
<1>5. CASE MarkReady
  BY <1>5 DEF MarkReady, Goto
<1>6. CASE Write
  BY <1>6 DEF Write
<1>7. CASE Accept
  BY <1>7 DEF Accept
<1>8. CASE Reject
  BY <1>8 DEF Reject, ReadsBack
<1>9. CASE ClearFile
  BY <1>9 DEF ClearFile
<1>10. CASE Cleared
  BY <1>10 DEF Cleared
<1>11. CASE RestoreFile
  BY <1>11 DEF RestoreFile
<1>12. CASE Restored
  BY <1>12 DEF Restored, Goto
<1>13. CASE RemoveFile
  BY <1>13 DEF RemoveFile
<1>14. CASE RemoveDirectory
  BY <1>14 DEF RemoveDirectory, Goto
<1>15. CASE CompleteAttempt
  BY <1>15 DEF CompleteAttempt, Goto
<1>16. CASE FinishRun
  BY <1>16 DEF FinishRun, EndRun, SettledSession
<1>17. CASE InterruptRun
  BY <1>17 DEF InterruptRun, EndRun, SettledSession
<1>18. CASE Abort
  BY <1>18 DEF Abort
<1>19. CASE Startup
  BY <1>19 DEF Startup, JustInterrupted
<1>20. CASE RecoverNext
  BY <1>20 DEF RecoverNext, ReadsBack, Accepted
<1>21. CASE CompleteRecovery
  BY <1>21 DEF CompleteRecovery, LeaveRun, Closed
<1>22. CASE RecoverWithoutJournal
  BY <1>22 DEF RecoverWithoutJournal, Gone, LeaveRun
<1>23. CASE RestoredLatest
  BY <1>23 DEF RestoredLatest, LeaveRun
<1>24. CASE Recovered
  BY <1>24 DEF Recovered, Goto
<1>25. CASE RecordFailure
  BY <1>25 DEF RecordFailure, Propagate, RecoveryRaised, Gone, Goto, Closed
<1>26. CASE Fault
  BY <1>26 DEF Fault, Goto, Gone, RecoveryRaised, Propagate, LeaveRun, ReadsBack
<1>27. CASE Crash
  BY <1>27 DEF Crash, Gone
<1>28. CASE Exit
  BY <1>28 DEF Exit, Gone
<1>29. CASE Discard
  BY <1>29 DEF Discard
<1>30. CASE UNCHANGED vars
  BY <1>30 DEF vars
<1>. QED BY <1>1, <1>2, <1>3, <1>4, <1>5, <1>6, <1>7, <1>8, <1>9, <1>10,
     <1>11, <1>12, <1>13, <1>14, <1>15, <1>16, <1>17, <1>18, <1>19, <1>20,
     <1>21, <1>22, <1>23, <1>24, <1>25, <1>26, <1>27, <1>28, <1>29, <1>30
     DEF Next, Step, Begin, Finish, Recover, Choices, Environment

\* Recovery leaves a run with its last journal.
LEMMA LeftStep == ASSUME IndInv, LeftOK, [Next]_vars PROVE LeftOK'
<1>. USE BoundAssumption DEF IndInv, TypeOK, RowsTypeOK, ProcessTypeOK, TaskOK, RowOK, LeftOK,
     PendingOf, IsPending, Pending, BeginPcs, FilePcs, OwnTasks, Finishing, Recovering, Runs,
     disk, db, process, history
<1>1. CASE StartRun
  BY <1>1 DEF StartRun
<1>2. CASE PrepareAttempt
  BY <1>2 DEF PrepareAttempt
<1>3. CASE MakeCheckpoint
  BY <1>3 DEF MakeCheckpoint
<1>4. CASE CopyFile
  BY <1>4 DEF CopyFile
<1>5. CASE MarkReady
  BY <1>5 DEF MarkReady, Goto
<1>6. CASE Write
  BY <1>6 DEF Write
<1>7. CASE Accept
  BY <1>7 DEF Accept
<1>8. CASE Reject
  BY <1>8 DEF Reject, ReadsBack
<1>9. CASE ClearFile
  BY <1>9 DEF ClearFile
<1>10. CASE Cleared
  BY <1>10 DEF Cleared
<1>11. CASE RestoreFile
  BY <1>11 DEF RestoreFile
<1>12. CASE Restored
  BY <1>12 DEF Restored, Goto
<1>13. CASE RemoveFile
  BY <1>13 DEF RemoveFile
<1>14. CASE RemoveDirectory
  BY <1>14 DEF RemoveDirectory, Goto
<1>15. CASE CompleteAttempt
  BY <1>15 DEF CompleteAttempt, Goto
<1>16. CASE FinishRun
  BY <1>16 DEF FinishRun, EndRun, SettledSession
<1>17. CASE InterruptRun
  BY <1>17 DEF InterruptRun, EndRun, SettledSession
<1>18. CASE Abort
  BY <1>18 DEF Abort
<1>19. CASE Startup
  BY <1>19 DEF Startup, JustInterrupted
<1>20. CASE RecoverNext
  <2>. HIDE DEF PendingOf, IsPending, Pending
  <2>1. left' = left /\ pc = "recovering" /\ UNCHANGED <<journal, owner>>
    BY <1>20 DEF RecoverNext
  <2>2. \A r \in left : PendingOf(r)' = PendingOf(r)
    BY <2>1 DEF PendingOf, IsPending
  <2>. QED BY <2>1, <2>2
<1>21. CASE CompleteRecovery
  <2>. HIDE DEF PendingOf, IsPending, Pending
  <2>1. task \in Recovering /\ pc = "settle" /\ owner' = owner
    BY <1>21 DEF CompleteRecovery
  <2>2. \A a \in Attempts : IsPending(a) /\ a # cur => IsPending(a)'
    BY <1>21 DEF CompleteRecovery, IsPending
  <2>3. left' \subseteq left /\ (PendingOf(owner[cur]) = {cur} => owner[cur] \notin left')
    BY <1>21 DEF CompleteRecovery, LeaveRun
  <2>4. ASSUME NEW r \in left' PROVE PendingOf(r)' # {}
    <3>1. PICK a \in PendingOf(r) : a # cur
      <4>1. PICK b \in PendingOf(r) : TRUE
        BY <2>1, <2>3
      <4>. QED BY <2>3, <4>1 DEF PendingOf
    <3>. QED BY <2>1, <2>2, <3>1 DEF PendingOf
  <2>. QED BY <2>4
<1>22. CASE RecoverWithoutJournal
  <2>. HIDE DEF PendingOf, IsPending, Pending
  <2>1. left' \subseteq left /\ pc = "recovering" /\ UNCHANGED <<journal, owner>>
    BY <1>22 DEF RecoverWithoutJournal, Gone, LeaveRun
  <2>2. \A r \in left : PendingOf(r)' = PendingOf(r)
    BY <2>1 DEF PendingOf, IsPending
  <2>. QED BY <2>1, <2>2
<1>23. CASE RestoredLatest
  <2>. HIDE DEF PendingOf, IsPending, Pending
  <2>1. left' \subseteq left /\ pc = "restore" /\ task = "latest" /\ UNCHANGED <<journal, owner>>
    BY <1>23 DEF RestoredLatest, LeaveRun
  <2>2. \A r \in left : PendingOf(r)' = PendingOf(r)
    BY <2>1 DEF PendingOf, IsPending
  <2>. QED BY <2>1, <2>2
<1>24. CASE Recovered
  BY <1>24 DEF Recovered, Goto
<1>25. CASE RecordFailure
  BY <1>25 DEF RecordFailure, Propagate, RecoveryRaised, Gone, Goto, Closed
<1>26. CASE Fault
  BY <1>26 DEF Fault, Goto, Gone, RecoveryRaised, Propagate, LeaveRun, ReadsBack
<1>27. CASE Crash
  BY <1>27 DEF Crash, Gone
<1>28. CASE Exit
  BY <1>28 DEF Exit, Gone
<1>29. CASE Discard
  BY <1>29 DEF Discard
<1>30. CASE UNCHANGED vars
  BY <1>30 DEF vars
<1>. QED BY <1>1, <1>2, <1>3, <1>4, <1>5, <1>6, <1>7, <1>8, <1>9, <1>10,
     <1>11, <1>12, <1>13, <1>14, <1>15, <1>16, <1>17, <1>18, <1>19, <1>20,
     <1>21, <1>22, <1>23, <1>24, <1>25, <1>26, <1>27, <1>28, <1>29, <1>30
     DEF Next, Step, Begin, Finish, Recover, Choices, Environment

\* No step writes files without a checkpoint.
LEMMA HeldStep == ASSUME IndInv, HeldOK, [Next]_vars PROVE HeldOK'
<1>. USE DEF IndInv, TypeOK, ProcessTypeOK, TaskOK, HeldOK, BeginPcs, FilePcs, Finishing, Recovering,
     disk, db, process, history
<1>1. CASE StartRun
  BY <1>1 DEF StartRun
<1>2. CASE PrepareAttempt
  BY <1>2 DEF PrepareAttempt
<1>3. CASE MakeCheckpoint
  BY <1>3 DEF MakeCheckpoint
<1>4. CASE CopyFile
  BY <1>4 DEF CopyFile
<1>5. CASE MarkReady
  BY <1>5 DEF MarkReady, Goto
<1>6. CASE Write
  BY <1>6 DEF Write
<1>7. CASE Accept
  BY <1>7 DEF Accept
<1>8. CASE Reject
  BY <1>8 DEF Reject, ReadsBack
<1>9. CASE ClearFile
  BY <1>9 DEF ClearFile
<1>10. CASE Cleared
  BY <1>10 DEF Cleared
<1>11. CASE RestoreFile
  BY <1>11 DEF RestoreFile
<1>12. CASE Restored
  BY <1>12 DEF Restored, Goto
<1>13. CASE RemoveFile
  BY <1>13 DEF RemoveFile
<1>14. CASE RemoveDirectory
  BY <1>14 DEF RemoveDirectory, Goto
<1>15. CASE CompleteAttempt
  BY <1>15 DEF CompleteAttempt, Goto
<1>16. CASE FinishRun
  BY <1>16 DEF FinishRun, EndRun, SettledSession
<1>17. CASE InterruptRun
  BY <1>17 DEF InterruptRun, EndRun, SettledSession
<1>18. CASE Abort
  BY <1>18 DEF Abort
<1>19. CASE Startup
  BY <1>19 DEF Startup, JustInterrupted
<1>20. CASE RecoverNext
  BY <1>20 DEF RecoverNext, ReadsBack, Accepted
<1>21. CASE CompleteRecovery
  BY <1>21 DEF CompleteRecovery, LeaveRun, Closed
<1>22. CASE RecoverWithoutJournal
  BY <1>22 DEF RecoverWithoutJournal, Gone, LeaveRun
<1>23. CASE RestoredLatest
  BY <1>23 DEF RestoredLatest, LeaveRun
<1>24. CASE Recovered
  BY <1>24 DEF Recovered, Goto
<1>25. CASE RecordFailure
  BY <1>25 DEF RecordFailure, Propagate, RecoveryRaised, Gone, Goto, Closed
<1>26. CASE Fault
  BY <1>26 DEF Fault, Goto, Gone, RecoveryRaised, Propagate, LeaveRun, ReadsBack
<1>27. CASE Crash
  BY <1>27 DEF Crash, Gone
<1>28. CASE Exit
  BY <1>28 DEF Exit, Gone
<1>29. CASE Discard
  BY <1>29 DEF Discard
<1>30. CASE UNCHANGED vars
  BY <1>30 DEF vars
<1>. QED BY <1>1, <1>2, <1>3, <1>4, <1>5, <1>6, <1>7, <1>8, <1>9, <1>10,
     <1>11, <1>12, <1>13, <1>14, <1>15, <1>16, <1>17, <1>18, <1>19, <1>20,
     <1>21, <1>22, <1>23, <1>24, <1>25, <1>26, <1>27, <1>28, <1>29, <1>30
     DEF Next, Step, Begin, Finish, Recover, Choices, Environment

\* A run begins an attempt when no journal is pending.
LEMMA NonePending ==
  ASSUME IndInv, SoleOK, pc = "ready", ~hurt
  PROVE  \A a \in Attempts : ~IsPending(a)
<1>1. run # 0 /\ PendingOf(run) = {}
  BY DEF IndInv, OwnerOK, BeginPcs
<1>. QED BY <1>1 DEF SoleOK, PendingOf

\* No sandbox goes back to a checkpoint that is not its run's.
LEMMA NothingLeft ==
  ASSUME IndInv, LeftOK, SoleOK, ~hurt, RecoverWithoutJournal
  PROVE  /\ UNCHANGED <<disk, db, used, history>>
         /\ \/ Gone
            \/ /\ \E r \in Runs : LeaveRun(r)
               /\ UNCHANGED <<pc, task, cur, todo, run, restored, open>>
<1>1. PICK r \in Runs :
        /\ IsNext(r) /\ PendingOf(r) = {}
        /\ \/ Direct /\ Gone /\ UNCHANGED history
           \/ /\ ~Direct /\ there = {} /\ LeaveRun(r)
              /\ UNCHANGED <<pc, task, cur, todo, run, restored, open, history>>
           \/ ~Direct /\ \E a \in there : cur' = a
  BY Zenon DEF RecoverWithoutJournal
<1>2. pc = "recovering" /\ UNCHANGED <<disk, db, used>>
  BY DEF RecoverWithoutJournal
<1>3. ASSUME ~Direct, NEW a \in there PROVE FALSE
  <2>1. a \in Attempts /\ IsPending(a)
    BY <1>3 DEF IndInv, TypeOK, DiskTypeOK, CheckpointOK, CheckpointsHaveJournals
  <2>2. r \in fresh
    BY <1>1, <1>2 DEF IsNext, LeftOK
  <2>3. owner[a] = r
    BY <1>3, <2>1, <2>2 DEF SoleOK
  <2>. QED BY <1>1, <2>1, <2>3 DEF PendingOf
<1>. QED BY <1>1, <1>2, <1>3 DEF history

\* No second journal becomes pending beside a checkpoint.
LEMMA SoleStep == ASSUME IndInv, RunOK, SessionOK, LeftOK, SoleOK, [Next]_vars PROVE SoleOK'
<1>. USE BoundAssumption DEF IndInv, TypeOK, DiskTypeOK, RowsTypeOK, ProcessTypeOK, FlagsTypeOK, TaskOK, RowOK,
     OwnerOK, RunOK, SessionOK, SoleOK, CheckpointOK, CheckpointsHaveJournals, PendingOf, IsPending,
     Pending, Final, BeginPcs, FilePcs, OwnTasks, Finishing, Recovering, Runs, disk, db, process,
     history
<1>1. CASE StartRun
  BY <1>1 DEF StartRun
<1>2. CASE PrepareAttempt
  BY <1>2 DEF PrepareAttempt
<1>3. CASE MakeCheckpoint
  BY <1>3 DEF MakeCheckpoint
<1>4. CASE CopyFile
  BY <1>4 DEF CopyFile
<1>5. CASE MarkReady
  BY <1>5 DEF MarkReady, Goto
<1>6. CASE Write
  BY <1>6 DEF Write
<1>7. CASE Accept
  BY <1>7 DEF Accept
<1>8. CASE Reject
  BY <1>8 DEF Reject, ReadsBack
<1>9. CASE ClearFile
  BY <1>9 DEF ClearFile
<1>10. CASE Cleared
  BY <1>10 DEF Cleared
<1>11. CASE RestoreFile
  BY <1>11 DEF RestoreFile
<1>12. CASE Restored
  BY <1>12 DEF Restored, Goto
<1>13. CASE RemoveFile
  BY <1>13 DEF RemoveFile
<1>14. CASE RemoveDirectory
  BY <1>14 DEF RemoveDirectory, Goto
<1>15. CASE CompleteAttempt
  BY <1>15 DEF CompleteAttempt, Goto
<1>16. CASE FinishRun
  BY <1>16 DEF FinishRun, EndRun, SettledSession
<1>17. CASE InterruptRun
  BY <1>17 DEF InterruptRun, EndRun, SettledSession
<1>18. CASE Abort
  BY <1>18 DEF Abort
<1>19. CASE Startup
  BY <1>19 DEF Startup, JustInterrupted
<1>20. CASE RecoverNext
  BY <1>20 DEF RecoverNext, ReadsBack, Accepted
<1>21. CASE CompleteRecovery
  BY <1>21 DEF CompleteRecovery, LeaveRun, Closed
<1>22. CASE RecoverWithoutJournal
  <2>. HIDE DEF SoleOK, IsPending, Pending, TypeOK
  <2>1. hurt => hurt'
    BY <1>22 DEF RecoverWithoutJournal, ReadsBack
  <2>2. SUFFICES ASSUME ~hurt PROVE SoleOK'
    BY <2>1 DEF SoleOK
  <2>3. UNCHANGED <<there, journal, owner, runs, hurt>> /\ fresh' \subseteq fresh /\ run' \in {0, run}
    BY <1>22, <2>2, NothingLeft DEF Gone, LeaveRun
  <2>. QED BY <2>3 DEF SoleOK, IsPending
<1>23. CASE RestoredLatest
  BY <1>23 DEF RestoredLatest, LeaveRun
<1>24. CASE Recovered
  BY <1>24 DEF Recovered, Goto
<1>25. CASE RecordFailure
  BY <1>25 DEF RecordFailure, Propagate, RecoveryRaised, Gone, Goto, Closed
<1>26. CASE Fault
  BY <1>26 DEF Fault, Goto, Gone, RecoveryRaised, Propagate, LeaveRun, ReadsBack
<1>27. CASE Crash
  BY <1>27 DEF Crash, Gone
<1>28. CASE Exit
  BY <1>28 DEF Exit, Gone
<1>29. CASE Discard
  BY <1>29 DEF Discard
<1>30. CASE UNCHANGED vars
  BY <1>30 DEF vars
<1>. QED BY <1>1, <1>2, <1>3, <1>4, <1>5, <1>6, <1>7, <1>8, <1>9, <1>10,
     <1>11, <1>12, <1>13, <1>14, <1>15, <1>16, <1>17, <1>18, <1>19, <1>20,
     <1>21, <1>22, <1>23, <1>24, <1>25, <1>26, <1>27, <1>28, <1>29, <1>30
     DEF Next, Step, Begin, Finish, Recover, Choices, Environment

\* Each step leaves in workspace and checkpoint what the next one relies on.
LEMMA PhaseStep == ASSUME IndInv, LeftOK, HeldOK, SoleOK, PhaseOK, SafeOK, [Next]_vars PROVE PhaseOK'
<1>. USE BoundAssumption DEF IndInv, TypeOK, DiskTypeOK, RowsTypeOK, ProcessTypeOK, FlagsTypeOK, TaskOK, RowOK,
     HeldOK, PhaseOK, Same, Kept, BeginPcs, FilePcs, OwnTasks, Finishing, Recovering, disk, db,
     process, history
<1>1. CASE StartRun
  BY <1>1 DEF StartRun
<1>2. CASE PrepareAttempt
  <2>1. hurt' = hurt /\ UNCHANGED <<ws, good>> /\ pc' = "checkpoint" /\ pc = "ready"
    BY <1>2 DEF PrepareAttempt
  <2>2. ~hurt => \A a \in Attempts : ~IsPending(a)
    BY <2>1, NonePending
  <2>. QED BY <2>1, <2>2 DEF SafeOK
<1>3. CASE MakeCheckpoint
  BY <1>3 DEF MakeCheckpoint, Empty
<1>4. CASE CopyFile
  BY <1>4 DEF CopyFile
<1>5. CASE MarkReady
  BY <1>5 DEF MarkReady, Goto
<1>6. CASE Write
  BY <1>6 DEF Write
<1>7. CASE Accept
  BY <1>7 DEF Accept
<1>8. CASE Reject
  BY <1>8 DEF Reject, ReadsBack
<1>9. CASE ClearFile
  BY <1>9 DEF ClearFile
<1>10. CASE Cleared
  BY <1>10 DEF Cleared, Empty
<1>11. CASE RestoreFile
  BY <1>11 DEF RestoreFile
<1>12. CASE Restored
  BY <1>12 DEF Restored, Goto
<1>13. CASE RemoveFile
  BY <1>13 DEF RemoveFile
<1>14. CASE RemoveDirectory
  BY <1>14 DEF RemoveDirectory, Goto
<1>15. CASE CompleteAttempt
  BY <1>15 DEF CompleteAttempt, Goto
<1>16. CASE FinishRun
  BY <1>16 DEF FinishRun, EndRun, SettledSession
<1>17. CASE InterruptRun
  BY <1>17 DEF InterruptRun, EndRun, SettledSession
<1>18. CASE Abort
  BY <1>18 DEF Abort
<1>19. CASE Startup
  BY <1>19 DEF Startup, JustInterrupted
<1>20. CASE RecoverNext
  <2>1. UNCHANGED <<ws, there, copy, journal>> /\ pc' \in {"remove", "settle", "clear", "failed"}
    BY <1>20 DEF RecoverNext
  <2>2. CASE task' = "recommit" /\ pc' \in {"remove", "settle"}
    BY <2>2
  <2>3. CASE task' = "recover" /\ pc' = "clear" /\ ReadsBack(cur')
    BY <2>1, <2>3 DEF ReadsBack
  <2>4. CASE /\ task' = "drop" /\ pc' = "settle" /\ UNCHANGED history
             /\ cur' \in Attempts /\ CanDrop(cur') /\ cur' \notin there
    BY <2>1, <2>4 DEF SafeOK
  <2>5. CASE pc' = "failed"
    BY <2>5
  <2>. QED BY <1>20, <2>2, <2>3, <2>4, <2>5 DEF RecoverNext
<1>21. CASE CompleteRecovery
  BY <1>21 DEF CompleteRecovery, LeaveRun, Closed
<1>22. CASE RecoverWithoutJournal
  <2>1. hurt => hurt'
    BY <1>22 DEF RecoverWithoutJournal, ReadsBack
  <2>2. SUFFICES ASSUME ~hurt PROVE PhaseOK'
    BY <2>1
  <2>3. pc = "recovering" /\ pc' \in {"recovering", "down"}
    BY <1>22, <2>2, NothingLeft DEF RecoverWithoutJournal, Gone
  <2>. QED BY <2>3
<1>23. CASE RestoredLatest
  BY <1>23 DEF RestoredLatest, LeaveRun
<1>24. CASE Recovered
  BY <1>24 DEF Recovered, Goto
<1>25. CASE RecordFailure
  BY <1>25 DEF RecordFailure, Propagate, RecoveryRaised, Gone, Goto, Closed
<1>26. CASE Fault
  BY <1>26 DEF Fault, Goto, Gone, RecoveryRaised, Propagate, LeaveRun, ReadsBack
<1>27. CASE Crash
  BY <1>27 DEF Crash, Gone
<1>28. CASE Exit
  BY <1>28 DEF Exit, Gone
<1>29. CASE Discard
  BY <1>29 DEF Discard
<1>30. CASE UNCHANGED vars
  BY <1>30 DEF vars
<1>. QED BY <1>1, <1>2, <1>3, <1>4, <1>5, <1>6, <1>7, <1>8, <1>9, <1>10,
     <1>11, <1>12, <1>13, <1>14, <1>15, <1>16, <1>17, <1>18, <1>19, <1>20,
     <1>21, <1>22, <1>23, <1>24, <1>25, <1>26, <1>27, <1>28, <1>29, <1>30
     DEF Next, Step, Begin, Finish, Recover, Choices, Environment

\* What the journals say of the workspace stays true.
LEMMA SafeStep == ASSUME IndInv, LeftOK, HeldOK, SoleOK, PhaseOK, SafeOK, [Next]_vars PROVE SafeOK'
<1>. USE BoundAssumption DEF IndInv, TypeOK, DiskTypeOK, RowsTypeOK, ProcessTypeOK, FlagsTypeOK, TaskOK, RowOK,
     HeldOK, SoleOK, PhaseOK, SafeOK, CheckpointOK, CheckpointsHaveJournals, Accepted, CanDrop,
     IsPending, Pending, Final, Same, Kept, BeginPcs, FilePcs, OwnTasks, Finishing, Recovering,
     disk, db, process, history
<1>1. CASE StartRun
  BY <1>1 DEF StartRun
<1>2. CASE PrepareAttempt
  <2>. HIDE DEF IndInv, SoleOK, IsPending
  <2>1. hurt' = hurt /\ UNCHANGED <<ws, good, decided, there>> /\ pc = "ready"
    BY <1>2 DEF PrepareAttempt
  <2>2. ~hurt => \A a \in Attempts : ~IsPending(a)
    BY <2>1, NonePending
  <2>3. ~hurt => Same(ws, good)
    BY <2>2
  <2>4. ~hurt => \A a \in Attempts : ~Accepted(a)'
    BY <1>2, <2>2 DEF PrepareAttempt, IndInv, IsPending
  <2>. QED BY <2>1, <2>3, <2>4
<1>3. CASE MakeCheckpoint
  BY <1>3 DEF MakeCheckpoint
<1>4. CASE CopyFile
  BY <1>4 DEF CopyFile
<1>5. CASE MarkReady
  BY <1>5 DEF MarkReady, Goto
<1>6. CASE Write
  BY <1>6 DEF Write
<1>7. CASE Accept
  BY <1>7 DEF Accept
<1>8. CASE Reject
  BY <1>8 DEF Reject, ReadsBack
<1>9. CASE ClearFile
  BY <1>9 DEF ClearFile
<1>10. CASE Cleared
  BY <1>10 DEF Cleared
<1>11. CASE RestoreFile
  BY <1>11 DEF RestoreFile
<1>12. CASE Restored
  BY <1>12 DEF Restored, Goto
<1>13. CASE RemoveFile
  BY <1>13 DEF RemoveFile
<1>14. CASE RemoveDirectory
  BY <1>14 DEF RemoveDirectory, Goto
<1>15. CASE CompleteAttempt
  BY <1>15 DEF CompleteAttempt, Goto
<1>16. CASE FinishRun
  BY <1>16 DEF FinishRun, EndRun, SettledSession
<1>17. CASE InterruptRun
  BY <1>17 DEF InterruptRun, EndRun, SettledSession
<1>18. CASE Abort
  BY <1>18 DEF Abort
<1>19. CASE Startup
  BY <1>19 DEF Startup, JustInterrupted
<1>20. CASE RecoverNext
  BY <1>20 DEF RecoverNext, ReadsBack, Accepted
<1>21. CASE CompleteRecovery
  BY <1>21 DEF CompleteRecovery, LeaveRun, Closed
<1>22. CASE RecoverWithoutJournal
  <2>. HIDE DEF SafeOK
  <2>1. hurt => hurt'
    BY <1>22 DEF RecoverWithoutJournal, ReadsBack
  <2>2. SUFFICES ASSUME ~hurt PROVE SafeOK'
    BY <2>1 DEF SafeOK
  <2>3. UNCHANGED <<ws, there, journal, good, decided, hurt>>
    BY <1>22, <2>2, NothingLeft
  <2>. QED BY <2>3 DEF SafeOK
<1>23. CASE RestoredLatest
  BY <1>23 DEF RestoredLatest, LeaveRun
<1>24. CASE Recovered
  BY <1>24 DEF Recovered, Goto
<1>25. CASE RecordFailure
  BY <1>25 DEF RecordFailure, Propagate, RecoveryRaised, Gone, Goto, Closed
<1>26. CASE Fault
  BY <1>26 DEF Fault, Goto, Gone, RecoveryRaised, Propagate, LeaveRun, ReadsBack
<1>27. CASE Crash
  BY <1>27 DEF Crash, Gone
<1>28. CASE Exit
  BY <1>28 DEF Exit, Gone
<1>29. CASE Discard
  BY <1>29 DEF Discard
<1>30. CASE UNCHANGED vars
  BY <1>30 DEF vars
<1>. QED BY <1>1, <1>2, <1>3, <1>4, <1>5, <1>6, <1>7, <1>8, <1>9, <1>10,
     <1>11, <1>12, <1>13, <1>14, <1>15, <1>16, <1>17, <1>18, <1>19, <1>20,
     <1>21, <1>22, <1>23, <1>24, <1>25, <1>26, <1>27, <1>28, <1>29, <1>30
     DEF Next, Step, Begin, Finish, Recover, Choices, Environment

\* Journals, checkpoints and files tell the same story as long as nothing hurt it.
LEMMA FilesInvariant == Spec => []FilesInv
<1>1. Init => FilesInv
  BY DEF Init, FilesInv, RunOK, SessionOK, LeftOK, HeldOK, SoleOK, PhaseOK, SafeOK, FilePcs,
     IsPending, Pending, Accepted, CanDrop, Same
<1>2. IndInv /\ FilesInv /\ [Next]_vars => FilesInv'
  BY RunStep, SessionStep, LeftStep, HeldStep, SoleStep, PhaseStep, SafeStep DEF FilesInv
<1>. QED BY <1>1, <1>2, InductiveInvariant, PTL DEF Spec

\* For any files and bounds: while no journal is pending the workspace holds what
\* was committed last, and work in progress has a whole checkpoint of it.
THEOREM FilesAreAlwaysSafe == Spec => []FilesAreSafe
<1>1. IndInv /\ FilesInv => FilesAreSafe
  <2>. SUFFICES ASSUME IndInv, FilesInv PROVE WorkspaceIsCommitted /\ WorkIsUndoable
    BY DEF FilesAreSafe
  <2>1. WorkspaceIsCommitted
    BY DEF FilesInv, SafeOK, WorkspaceIsCommitted
  <2>2. WorkIsUndoable
    BY DEF FilesInv, IndInv, RowOK, HeldOK, PhaseOK, WorkIsUndoable
  <2>. QED BY <2>1, <2>2
<1>. QED BY <1>1, InductiveInvariant, FilesInvariant, PTL
=============================================================================
