----------------------- MODULE ApplyTransactionProofs -----------------------
(***************************************************************************)
(* For every manifest and every bound: ApplyTransaction keeps its types,   *)
(* its applies are all or nothing, every mutation can be undone, what a    *)
(* step may never do and what it reports, that the service implements the  *)
(* atomic apply of AtomicApply, and that crashes alone are recovered from. *)
(***************************************************************************)
EXTENDS ApplyTransaction, TLAPS

(***************************************************************************)
(* The inductive invariant                                                 *)
(***************************************************************************)
\* Entry-indexed steps have an entry, directory-indexed steps a directory.
IdxOK ==
  /\ pc \in {"copy", "check", "intent", "promote", "unlink", "undo", "undoadd",
             "restore", "putback"} => idx \in Entries
  /\ pc = "mkdir" => idx \in 1..(D + 1)
  /\ pc = "receipt" => idx \in DirIds
  /\ pc = "undodir" => idx \in 0..D

\* Where the caller stands in the protocol, the journal agrees.
JournalOK ==
  /\ pc \in StagePcs => journal = "PREPARING"
  /\ pc \in PublishPcs => journal = "APPLYING"
  /\ pc \in RecoverPcs \ {"recfail"} => journal = seen
  /\ pc \in UndoPcs \cup {"readplan"} => seen # "PREPARING"
  /\ pc = "recfail" => journal \in Pending \cup {"ROLLED_BACK"}
  /\ pc = "cleanup" => journal \in {"COMMITTED", "ROLLED_BACK"}
  /\ journal = "PREPARING" => ~authorized
  /\ journal = "APPLYING" => authorized

\* Files are written in protocol order.
StagedOK ==
  /\ \A e \in Entries : intent[e] # "none" => authorized
  /\ \A d \in DirIds : receipt[d] # "none" => authorized
  /\ pc \in {"copy", "restage", "authorize"} => plan = "ok"
  /\ pc = "copy" => \A e \in 1..(idx - 1) : Op[e] # "ADD" => backup[e] = "ok"
  /\ pc \in {"restage", "authorize"} =>
       \A e \in Entries : Op[e] # "ADD" => backup[e] = "ok"
  /\ authorized /\ journal \in Pending =>
       /\ plan = "ok"
       /\ \A e \in Entries : Op[e] # "ADD" => backup[e] = "ok"

\* An entry that nobody edited is published in manifest order: those not
\* reached yet still have their old bytes.
PristineOK ==
  /\ ~authorized /\ journal \in Pending => \A e \in Entries \ edited : source[e] = "before"
  /\ pc \in {"mkdir", "receipt"} => \A e \in Entries \ edited : source[e] = "before"
  /\ pc \in {"check", "intent", "promote", "unlink"} =>
       \A e \in Entries \ edited : e >= idx => source[e] = "before"

\* Neither publication nor rollback touches an entry without an intent.
IntentOK ==
  /\ pc \in {"promote", "unlink", "undoadd", "restore", "putback"} => intent[idx] = "ok"
  /\ journal \in Pending =>
       \A e \in Entries \ edited : source[e] = "after" => intent[e] = "ok"

\* Both decisions are taken after the whole tree was verified.
VerifiedOK ==
  /\ pc = "commit" => \A e \in Entries \ edited : source[e] = "after"
  /\ pc = "settle" => \A e \in Entries \ edited : source[e] = "before"

IndInv ==
  /\ TypeOK /\ IdxOK /\ JournalOK /\ StagedOK
  /\ PristineOK /\ IntentOK /\ VerifiedOK
  /\ AllOrNothing /\ AppliedIffCommitted

(***************************************************************************)
(* Type correctness                                                        *)
(***************************************************************************)
\* Every initial state has the types.
LEMMA TypeInit == Init => TypeOK
<1>. SUFFICES ASSUME Init PROVE TypeOK
  OBVIOUS
<1>. USE ManifestAssumption, BoundAssumption DEF Init
<1>1. TreeTypeOK
  BY DEF TreeTypeOK, Content
<1>2. DbTypeOK
  BY DEF DbTypeOK
<1>3. FilesTypeOK
  BY DEF FilesTypeOK, FileState
<1>4. CallerTypeOK
  BY DEF CallerTypeOK, Pcs, Pending
<1>5. FlagsTypeOK
  BY DEF FlagsTypeOK
<1>6. UsedTypeOK
  BY DEF UsedTypeOK
<1>. QED BY <1>1, <1>2, <1>3, <1>4, <1>5, <1>6 DEF TypeOK

\* The source tree and the files of the transaction keep their types.
LEMMA StorageTypeStep == ASSUME TypeOK, [Next]_vars PROVE TreeTypeOK' /\ FilesTypeOK'
<1>. USE ManifestAssumption, BoundAssumption DEF TypeOK, tree, db, files,
     caller, history, Goto, TreeTypeOK, Content, FilesTypeOK, FileState
<1>1. ASSUME NEW version \in {0, sver}, Begin(version) PROVE TreeTypeOK' /\ FilesTypeOK'
  BY <1>1 DEF Begin
<1>2. CASE RecoverPending
  BY <1>2 DEF RecoverPending
<1>3. CASE Preflight
  BY <1>3 DEF Preflight, Refuse, Return, SessionCas, SessionOwned, Conditions
<1>4. CASE Recheck
  BY <1>4 DEF Recheck, Refuse, Return, SessionCas, SessionOwned, Conditions
<1>5. CASE Reserve
  BY <1>5 DEF Reserve, CanReserve, PrepareApply, Refuse, Return, SessionCas,
     SessionOwned
<1>6. CASE MakeStaging
  BY <1>6 DEF MakeStaging
<1>7. CASE WritePlan
  BY <1>7 DEF WritePlan
<1>8. CASE CopyEntry
  BY <1>8 DEF CopyEntry
<1>9. CASE Restage
  BY <1>9 DEF Restage, Raise, Conditions
<1>10. CASE Authorize
  BY <1>10 DEF Authorize, TransitionApplying, Raise, SessionCas, SessionOwned
<1>11. CASE MakeDirectory
  BY <1>11 DEF MakeDirectory, Raise
<1>12. CASE WriteReceipt
  BY <1>12 DEF WriteReceipt
<1>13. CASE CheckSource
  BY <1>13 DEF CheckSource, Raise
<1>14. CASE WriteIntent
  BY <1>14 DEF WriteIntent
<1>15. CASE Promote
  BY <1>15 DEF Promote, CanPromote, NextEntry, Raise
<1>16. CASE UnlinkSource
  BY <1>16 DEF UnlinkSource, NextEntry, Raise
<1>17. CASE VerifyPublished
  BY <1>17 DEF VerifyPublished, Conditions, Raise
<1>18. CASE Commit
  BY <1>18 DEF Commit, TransitionCommitted, Raise, SessionCas, SessionOwned
<1>19. CASE HandleException
  BY <1>19 DEF HandleException
<1>20. CASE Cleanup
  BY <1>20 DEF Cleanup
<1>21. CASE RecoverBegin
  BY <1>21 DEF RecoverBegin, SessionOwned
<1>22. CASE CheckUntouched
  BY <1>22 DEF CheckUntouched, Conditions
<1>23. CASE ReadPlan
  BY <1>23 DEF ReadPlan
<1>24. CASE UndoEntry
  BY <1>24 DEF UndoEntry, PrevEntry
<1>25. CASE UndoAdd
  BY <1>25 DEF UndoAdd, PrevEntry
<1>26. CASE CopyRestore
  BY <1>26 DEF CopyRestore, PrevEntry
<1>27. CASE PutBack
  BY <1>27 DEF PutBack, PrevEntry
<1>28. CASE UndoDirectory
  BY <1>28 DEF UndoDirectory
<1>29. CASE ConfirmRestored
  BY <1>29 DEF ConfirmRestored, Conditions
<1>30. CASE Settle
  BY <1>30 DEF Settle, CanSettle, TransitionRolledBack, SessionCas,
     SessionOwned
<1>31. CASE RecordFailure
  BY <1>31 DEF RecordFailure, Return
<1>32. CASE Fault
  BY <1>32 DEF Fault, SpendFault, MaybeTorn, Return, PrevEntry
<1>33. CASE LostReply
  BY <1>33 DEF LostReply, SpendFault, CanReserve, PrepareApply, SessionCas,
     SessionOwned, TransitionCommitted, TransitionRolledBack, CanSettle
<1>34. CASE Crash
  BY <1>34 DEF Crash, MaybeTorn
<1>35. ASSUME NEW f \in Entries, NEW content \in Content, EditFile(f, content)
     PROVE  TreeTypeOK' /\ FilesTypeOK'
  BY <1>35 DEF EditFile
<1>36. ASSUME NEW d \in DirIds, EditDirectory(d) PROVE TreeTypeOK' /\ FilesTypeOK'
  BY <1>36 DEF EditDirectory
<1>37. CASE Discard
  BY <1>37 DEF Discard
<1>38. CASE UNCHANGED vars
  BY <1>38 DEF vars
<1>. QED BY <1>1, <1>2, <1>3, <1>4, <1>5, <1>6, <1>7, <1>8, <1>9, <1>10,
     <1>11, <1>12, <1>13, <1>14, <1>15, <1>16, <1>17, <1>18, <1>19, <1>20,
     <1>21, <1>22, <1>23, <1>24, <1>25, <1>26, <1>27, <1>28, <1>29, <1>30,
     <1>31, <1>32, <1>33, <1>34, <1>35, <1>36, <1>37, <1>38
     DEF Next, ServiceStep, Environment

\* The database rows and the caller keep their types.
LEMMA CallerTypeStep == ASSUME TypeOK, [Next]_vars PROVE DbTypeOK' /\ CallerTypeOK'
<1>. USE ManifestAssumption, BoundAssumption DEF TypeOK, tree, db, files,
     caller, history, Goto, DbTypeOK, CallerTypeOK, Pcs, Pending, PreparePcs,
     StagePcs, PublishPcs, RecoverPcs, UndoPcs
<1>1. ASSUME NEW version \in {0, sver}, Begin(version) PROVE DbTypeOK' /\ CallerTypeOK'
  BY <1>1 DEF Begin
<1>2. CASE RecoverPending
  BY <1>2 DEF RecoverPending
<1>3. CASE Preflight
  BY <1>3 DEF Preflight, Refuse, Return, SessionCas, SessionOwned, Conditions
<1>4. CASE Recheck
  BY <1>4 DEF Recheck, Refuse, Return, SessionCas, SessionOwned, Conditions
<1>5. CASE Reserve
  BY <1>5 DEF Reserve, CanReserve, PrepareApply, Refuse, Return, SessionCas,
     SessionOwned
<1>6. CASE MakeStaging
  BY <1>6 DEF MakeStaging
<1>7. CASE WritePlan
  BY <1>7 DEF WritePlan
<1>8. CASE CopyEntry
  BY <1>8 DEF CopyEntry
<1>9. CASE Restage
  BY <1>9 DEF Restage, Raise, Conditions
<1>10. CASE Authorize
  BY <1>10 DEF Authorize, TransitionApplying, Raise, SessionCas, SessionOwned
<1>11. CASE MakeDirectory
  BY <1>11 DEF MakeDirectory, Raise
<1>12. CASE WriteReceipt
  BY <1>12 DEF WriteReceipt
<1>13. CASE CheckSource
  BY <1>13 DEF CheckSource, Raise
<1>14. CASE WriteIntent
  BY <1>14 DEF WriteIntent
<1>15. CASE Promote
  BY <1>15 DEF Promote, CanPromote, NextEntry, Raise
<1>16. CASE UnlinkSource
  BY <1>16 DEF UnlinkSource, NextEntry, Raise
<1>17. CASE VerifyPublished
  BY <1>17 DEF VerifyPublished, Conditions, Raise
<1>18. CASE Commit
  BY <1>18 DEF Commit, TransitionCommitted, Raise, SessionCas, SessionOwned
<1>19. CASE HandleException
  BY <1>19 DEF HandleException
<1>20. CASE Cleanup
  BY <1>20 DEF Cleanup
<1>21. CASE RecoverBegin
  BY <1>21 DEF RecoverBegin, SessionOwned
<1>22. CASE CheckUntouched
  BY <1>22 DEF CheckUntouched, Conditions
<1>23. CASE ReadPlan
  BY <1>23 DEF ReadPlan
<1>24. CASE UndoEntry
  BY <1>24 DEF UndoEntry, PrevEntry
<1>25. CASE UndoAdd
  BY <1>25 DEF UndoAdd, PrevEntry
<1>26. CASE CopyRestore
  BY <1>26 DEF CopyRestore, PrevEntry
<1>27. CASE PutBack
  BY <1>27 DEF PutBack, PrevEntry
<1>28. CASE UndoDirectory
  BY <1>28 DEF UndoDirectory
<1>29. CASE ConfirmRestored
  BY <1>29 DEF ConfirmRestored, Conditions
<1>30. CASE Settle
  BY <1>30 DEF Settle, CanSettle, TransitionRolledBack, SessionCas,
     SessionOwned
<1>31. CASE RecordFailure
  BY <1>31 DEF RecordFailure, Return
<1>32. CASE Fault
  BY <1>32 DEF Fault, SpendFault, MaybeTorn, Return, PrevEntry
<1>33. CASE LostReply
  BY <1>33 DEF LostReply, SpendFault, CanReserve, PrepareApply, SessionCas,
     SessionOwned, TransitionCommitted, TransitionRolledBack, CanSettle
<1>34. CASE Crash
  BY <1>34 DEF Crash, MaybeTorn
<1>35. ASSUME NEW f \in Entries, NEW content \in Content, EditFile(f, content)
     PROVE  DbTypeOK' /\ CallerTypeOK'
  BY <1>35 DEF EditFile
<1>36. ASSUME NEW d \in DirIds, EditDirectory(d) PROVE DbTypeOK' /\ CallerTypeOK'
  BY <1>36 DEF EditDirectory
<1>37. CASE Discard
  BY <1>37 DEF Discard
<1>38. CASE UNCHANGED vars
  BY <1>38 DEF vars
<1>. QED BY <1>1, <1>2, <1>3, <1>4, <1>5, <1>6, <1>7, <1>8, <1>9, <1>10,
     <1>11, <1>12, <1>13, <1>14, <1>15, <1>16, <1>17, <1>18, <1>19, <1>20,
     <1>21, <1>22, <1>23, <1>24, <1>25, <1>26, <1>27, <1>28, <1>29, <1>30,
     <1>31, <1>32, <1>33, <1>34, <1>35, <1>36, <1>37, <1>38
     DEF Next, ServiceStep, Environment

\* The flags are Boolean and no bound is exceeded.
LEMMA HistoryTypeStep == ASSUME TypeOK, [Next]_vars PROVE FlagsTypeOK' /\ UsedTypeOK'
<1>. USE ManifestAssumption, BoundAssumption DEF TypeOK, tree, db, files,
     caller, history, Goto, FlagsTypeOK, UsedTypeOK
<1>1. ASSUME NEW version \in {0, sver}, Begin(version) PROVE FlagsTypeOK' /\ UsedTypeOK'
  BY <1>1 DEF Begin
<1>2. CASE RecoverPending
  BY <1>2 DEF RecoverPending
<1>3. CASE Preflight
  BY <1>3 DEF Preflight, Refuse, Return, SessionCas, SessionOwned, Conditions
<1>4. CASE Recheck
  BY <1>4 DEF Recheck, Refuse, Return, SessionCas, SessionOwned, Conditions
<1>5. CASE Reserve
  BY <1>5 DEF Reserve, CanReserve, PrepareApply, Refuse, Return, SessionCas,
     SessionOwned
<1>6. CASE MakeStaging
  BY <1>6 DEF MakeStaging
<1>7. CASE WritePlan
  BY <1>7 DEF WritePlan
<1>8. CASE CopyEntry
  BY <1>8 DEF CopyEntry
<1>9. CASE Restage
  BY <1>9 DEF Restage, Raise, Conditions
<1>10. CASE Authorize
  BY <1>10 DEF Authorize, TransitionApplying, Raise, SessionCas, SessionOwned
<1>11. CASE MakeDirectory
  BY <1>11 DEF MakeDirectory, Raise
<1>12. CASE WriteReceipt
  BY <1>12 DEF WriteReceipt
<1>13. CASE CheckSource
  BY <1>13 DEF CheckSource, Raise
<1>14. CASE WriteIntent
  BY <1>14 DEF WriteIntent
<1>15. CASE Promote
  BY <1>15 DEF Promote, CanPromote, NextEntry, Raise
<1>16. CASE UnlinkSource
  BY <1>16 DEF UnlinkSource, NextEntry, Raise
<1>17. CASE VerifyPublished
  BY <1>17 DEF VerifyPublished, Conditions, Raise
<1>18. CASE Commit
  BY <1>18 DEF Commit, TransitionCommitted, Raise, SessionCas, SessionOwned
<1>19. CASE HandleException
  BY <1>19 DEF HandleException
<1>20. CASE Cleanup
  BY <1>20 DEF Cleanup
<1>21. CASE RecoverBegin
  BY <1>21 DEF RecoverBegin, SessionOwned
<1>22. CASE CheckUntouched
  BY <1>22 DEF CheckUntouched, Conditions
<1>23. CASE ReadPlan
  BY <1>23 DEF ReadPlan
<1>24. CASE UndoEntry
  BY <1>24 DEF UndoEntry, PrevEntry
<1>25. CASE UndoAdd
  BY <1>25 DEF UndoAdd, PrevEntry
<1>26. CASE CopyRestore
  BY <1>26 DEF CopyRestore, PrevEntry
<1>27. CASE PutBack
  BY <1>27 DEF PutBack, PrevEntry
<1>28. CASE UndoDirectory
  BY <1>28 DEF UndoDirectory
<1>29. CASE ConfirmRestored
  BY <1>29 DEF ConfirmRestored, Conditions
<1>30. CASE Settle
  BY <1>30 DEF Settle, CanSettle, TransitionRolledBack, SessionCas,
     SessionOwned
<1>31. CASE RecordFailure
  BY <1>31 DEF RecordFailure, Return
<1>32. CASE Fault
  <2>1. FlagsTypeOK'
    BY <1>32 DEF Fault, SpendFault, MaybeTorn, Return,
     PrevEntry
  <2>2. UsedTypeOK'
    BY <1>32 DEF Fault, SpendFault, MaybeTorn, Return,
     PrevEntry
  <2>. QED BY <2>1, <2>2
<1>33. CASE LostReply
  <2>1. FlagsTypeOK'
    BY <1>33 DEF LostReply, SpendFault, CanReserve,
     PrepareApply, SessionCas, SessionOwned, TransitionCommitted,
     TransitionRolledBack, CanSettle
  <2>2. UsedTypeOK'
    BY <1>33 DEF LostReply, SpendFault, CanReserve,
     PrepareApply, SessionCas, SessionOwned, TransitionCommitted,
     TransitionRolledBack, CanSettle
  <2>. QED BY <2>1, <2>2
<1>34. CASE Crash
  <2>1. FlagsTypeOK'
    BY <1>34 DEF Crash, MaybeTorn
  <2>2. UsedTypeOK'
    BY <1>34 DEF Crash, MaybeTorn
  <2>. QED BY <2>1, <2>2
<1>35. ASSUME NEW f \in Entries, NEW content \in Content, EditFile(f, content)
     PROVE  FlagsTypeOK' /\ UsedTypeOK'
  <2>1. FlagsTypeOK'
    BY <1>35 DEF EditFile
  <2>2. UsedTypeOK'
    BY <1>35 DEF EditFile
  <2>. QED BY <2>1, <2>2
<1>36. ASSUME NEW d \in DirIds, EditDirectory(d) PROVE FlagsTypeOK' /\ UsedTypeOK'
  <2>1. FlagsTypeOK'
    BY <1>36 DEF EditDirectory
  <2>2. UsedTypeOK'
    BY <1>36 DEF EditDirectory
  <2>. QED BY <2>1, <2>2
<1>37. CASE Discard
  <2>1. FlagsTypeOK'
    BY <1>37 DEF Discard
  <2>2. UsedTypeOK'
    BY <1>37 DEF Discard
  <2>. QED BY <2>1, <2>2
<1>38. CASE UNCHANGED vars
  BY <1>38 DEF vars
<1>. QED BY <1>1, <1>2, <1>3, <1>4, <1>5, <1>6, <1>7, <1>8, <1>9, <1>10,
     <1>11, <1>12, <1>13, <1>14, <1>15, <1>16, <1>17, <1>18, <1>19, <1>20,
     <1>21, <1>22, <1>23, <1>24, <1>25, <1>26, <1>27, <1>28, <1>29, <1>30,
     <1>31, <1>32, <1>33, <1>34, <1>35, <1>36, <1>37, <1>38
     DEF Next, ServiceStep, Environment

\* Every step keeps the types.
LEMMA TypeStep == ASSUME TypeOK, [Next]_vars PROVE TypeOK'
  BY StorageTypeStep, CallerTypeStep, HistoryTypeStep DEF TypeOK

\* Whatever the manifest and however often the bounds let processes crash,
\* calls fail and users edit, every variable keeps its type.
THEOREM TypeCorrect == Spec => []TypeOK
<1>1. Init => TypeOK
  BY TypeInit
<1>2. TypeOK /\ [Next]_vars => TypeOK'
  BY TypeStep
<1>. QED BY <1>1, <1>2, PTL DEF Spec

(***************************************************************************)
(* The invariant is inductive                                              *)
(***************************************************************************)
\* An indexed step always has an entry or a directory to work on.
LEMMA IdxStep == ASSUME IndInv, [Next]_vars PROVE IdxOK'
<1>. USE ManifestAssumption, BoundAssumption DEF IndInv, TypeOK, tree, db,
     files, caller, history, Goto, IdxOK, CallerTypeOK, Entries, DirIds
<1>1. ASSUME NEW version \in {0, sver}, Begin(version) PROVE IdxOK'
  BY <1>1 DEF Begin
<1>2. CASE RecoverPending
  BY <1>2 DEF RecoverPending
<1>3. CASE Preflight
  BY <1>3 DEF Preflight, Refuse, Return, SessionCas, SessionOwned, Conditions
<1>4. CASE Recheck
  BY <1>4 DEF Recheck, Refuse, Return, SessionCas, SessionOwned, Conditions
<1>5. CASE Reserve
  BY <1>5 DEF Reserve, CanReserve, PrepareApply, Refuse, Return, SessionCas,
     SessionOwned
<1>6. CASE MakeStaging
  BY <1>6 DEF MakeStaging
<1>7. CASE WritePlan
  BY <1>7 DEF WritePlan
<1>8. CASE CopyEntry
  BY <1>8 DEF CopyEntry
<1>9. CASE Restage
  BY <1>9 DEF Restage, Raise, Conditions
<1>10. CASE Authorize
  BY <1>10 DEF Authorize, TransitionApplying, Raise, SessionCas, SessionOwned
<1>11. CASE MakeDirectory
  <2>1. CASE idx > D
    BY <1>11, <2>1 DEF MakeDirectory, Raise, FilesTypeOK
  <2>2. CASE idx \in DirIds \ missing
    BY <1>11, <2>2 DEF MakeDirectory, Raise
  <2>3. CASE idx \in missing
    BY <1>11, <2>3 DEF MakeDirectory, Raise, FilesTypeOK
  <2>4. idx > D \/ idx \in DirIds
    BY <1>11 DEF MakeDirectory
  <2>. QED BY <2>1, <2>2, <2>3, <2>4
<1>12. CASE WriteReceipt
  BY <1>12 DEF WriteReceipt
<1>13. CASE CheckSource
  BY <1>13 DEF CheckSource, Raise
<1>14. CASE WriteIntent
  BY <1>14 DEF WriteIntent
<1>15. CASE Promote
  BY <1>15 DEF Promote, CanPromote, NextEntry, Raise
<1>16. CASE UnlinkSource
  BY <1>16 DEF UnlinkSource, NextEntry, Raise
<1>17. CASE VerifyPublished
  BY <1>17 DEF VerifyPublished, Conditions, Raise
<1>18. CASE Commit
  BY <1>18 DEF Commit, TransitionCommitted, Raise, SessionCas, SessionOwned
<1>19. CASE HandleException
  BY <1>19 DEF HandleException
<1>20. CASE Cleanup
  BY <1>20 DEF Cleanup
<1>21. CASE RecoverBegin
  BY <1>21 DEF RecoverBegin, SessionOwned
<1>22. CASE CheckUntouched
  BY <1>22 DEF CheckUntouched, Conditions
<1>23. CASE ReadPlan
  BY <1>23 DEF ReadPlan
<1>24. CASE UndoEntry
  BY <1>24 DEF UndoEntry, PrevEntry
<1>25. CASE UndoAdd
  BY <1>25 DEF UndoAdd, PrevEntry
<1>26. CASE CopyRestore
  BY <1>26 DEF CopyRestore, PrevEntry
<1>27. CASE PutBack
  BY <1>27 DEF PutBack, PrevEntry
<1>28. CASE UndoDirectory
  BY <1>28 DEF UndoDirectory
<1>29. CASE ConfirmRestored
  BY <1>29 DEF ConfirmRestored, Conditions
<1>30. CASE Settle
  BY <1>30 DEF Settle, CanSettle, TransitionRolledBack, SessionCas,
     SessionOwned
<1>31. CASE RecordFailure
  BY <1>31 DEF RecordFailure, Return
<1>32. CASE Fault
  BY <1>32 DEF Fault, SpendFault, MaybeTorn, Return, PrevEntry
<1>33. CASE LostReply
  BY <1>33 DEF LostReply, SpendFault, CanReserve, PrepareApply, SessionCas,
     SessionOwned, TransitionCommitted, TransitionRolledBack, CanSettle
<1>34. CASE Crash
  BY <1>34 DEF Crash, MaybeTorn
<1>35. ASSUME NEW f \in Entries, NEW content \in Content, EditFile(f, content)
     PROVE  IdxOK'
  BY <1>35 DEF EditFile
<1>36. ASSUME NEW d \in DirIds, EditDirectory(d) PROVE IdxOK'
  BY <1>36 DEF EditDirectory
<1>37. CASE Discard
  BY <1>37 DEF Discard
<1>38. CASE UNCHANGED vars
  BY <1>38 DEF vars
<1>. QED BY <1>1, <1>2, <1>3, <1>4, <1>5, <1>6, <1>7, <1>8, <1>9, <1>10,
     <1>11, <1>12, <1>13, <1>14, <1>15, <1>16, <1>17, <1>18, <1>19, <1>20,
     <1>21, <1>22, <1>23, <1>24, <1>25, <1>26, <1>27, <1>28, <1>29, <1>30,
     <1>31, <1>32, <1>33, <1>34, <1>35, <1>36, <1>37, <1>38
     DEF Next, ServiceStep, Environment

\* The journal row and the place of the caller stay in agreement.
LEMMA JournalStep == ASSUME IndInv, [Next]_vars PROVE JournalOK'
<1>. USE ManifestAssumption, BoundAssumption DEF IndInv, TypeOK, tree, db,
     files, caller, history, Goto, JournalOK, CallerTypeOK, Pending,
     PreparePcs, StagePcs, PublishPcs, RecoverPcs, UndoPcs
<1>1. ASSUME NEW version \in {0, sver}, Begin(version) PROVE JournalOK'
  BY <1>1 DEF Begin
<1>2. CASE RecoverPending
  BY <1>2 DEF RecoverPending
<1>3. CASE Preflight
  BY <1>3 DEF Preflight, Refuse, Return, SessionCas, SessionOwned, Conditions
<1>4. CASE Recheck
  BY <1>4 DEF Recheck, Refuse, Return, SessionCas, SessionOwned, Conditions
<1>5. CASE Reserve
  BY <1>5 DEF Reserve, CanReserve, PrepareApply, Refuse, Return, SessionCas,
     SessionOwned
<1>6. CASE MakeStaging
  BY <1>6 DEF MakeStaging
<1>7. CASE WritePlan
  BY <1>7 DEF WritePlan
<1>8. CASE CopyEntry
  BY <1>8 DEF CopyEntry
<1>9. CASE Restage
  BY <1>9 DEF Restage, Raise, Conditions
<1>10. CASE Authorize
  BY <1>10 DEF Authorize, TransitionApplying, Raise, SessionCas, SessionOwned
<1>11. CASE MakeDirectory
  BY <1>11 DEF MakeDirectory, Raise
<1>12. CASE WriteReceipt
  BY <1>12 DEF WriteReceipt
<1>13. CASE CheckSource
  BY <1>13 DEF CheckSource, Raise
<1>14. CASE WriteIntent
  BY <1>14 DEF WriteIntent
<1>15. CASE Promote
  BY <1>15 DEF Promote, CanPromote, NextEntry, Raise
<1>16. CASE UnlinkSource
  BY <1>16 DEF UnlinkSource, NextEntry, Raise
<1>17. CASE VerifyPublished
  BY <1>17 DEF VerifyPublished, Conditions, Raise
<1>18. CASE Commit
  BY <1>18 DEF Commit, TransitionCommitted, Raise, SessionCas, SessionOwned
<1>19. CASE HandleException
  BY <1>19 DEF HandleException
<1>20. CASE Cleanup
  BY <1>20 DEF Cleanup
<1>21. CASE RecoverBegin
  BY <1>21 DEF RecoverBegin, SessionOwned
<1>22. CASE CheckUntouched
  BY <1>22 DEF CheckUntouched, Conditions
<1>23. CASE ReadPlan
  BY <1>23 DEF ReadPlan
<1>24. CASE UndoEntry
  BY <1>24 DEF UndoEntry, PrevEntry
<1>25. CASE UndoAdd
  BY <1>25 DEF UndoAdd, PrevEntry
<1>26. CASE CopyRestore
  BY <1>26 DEF CopyRestore, PrevEntry
<1>27. CASE PutBack
  BY <1>27 DEF PutBack, PrevEntry
<1>28. CASE UndoDirectory
  BY <1>28 DEF UndoDirectory
<1>29. CASE ConfirmRestored
  BY <1>29 DEF ConfirmRestored, Conditions
<1>30. CASE Settle
  BY <1>30 DEF Settle, CanSettle, TransitionRolledBack, SessionCas,
     SessionOwned
<1>31. CASE RecordFailure
  BY <1>31 DEF RecordFailure, Return
<1>32. CASE Fault
  BY <1>32 DEF Fault, SpendFault, MaybeTorn, Return, PrevEntry
<1>33. CASE LostReply
  BY <1>33 DEF LostReply, SpendFault, CanReserve, PrepareApply, SessionCas,
     SessionOwned, TransitionCommitted, TransitionRolledBack, CanSettle
<1>34. CASE Crash
  BY <1>34 DEF Crash, MaybeTorn
<1>35. ASSUME NEW f \in Entries, NEW content \in Content, EditFile(f, content)
     PROVE  JournalOK'
  BY <1>35 DEF EditFile
<1>36. ASSUME NEW d \in DirIds, EditDirectory(d) PROVE JournalOK'
  BY <1>36 DEF EditDirectory
<1>37. CASE Discard
  BY <1>37 DEF Discard
<1>38. CASE UNCHANGED vars
  BY <1>38 DEF vars
<1>. QED BY <1>1, <1>2, <1>3, <1>4, <1>5, <1>6, <1>7, <1>8, <1>9, <1>10,
     <1>11, <1>12, <1>13, <1>14, <1>15, <1>16, <1>17, <1>18, <1>19, <1>20,
     <1>21, <1>22, <1>23, <1>24, <1>25, <1>26, <1>27, <1>28, <1>29, <1>30,
     <1>31, <1>32, <1>33, <1>34, <1>35, <1>36, <1>37, <1>38
     DEF Next, ServiceStep, Environment

\* Plan and backups are complete before APPLYING, intents and receipts come after.
LEMMA StagedStep == ASSUME IndInv, [Next]_vars PROVE StagedOK'
<1>. USE ManifestAssumption, BoundAssumption DEF IndInv, TypeOK, tree, db,
     files, caller, history, Goto, StagedOK, IdxOK, JournalOK, FilesTypeOK,
     Entries, DirIds, Pending, FileState, PreparePcs, StagePcs, PublishPcs,
     RecoverPcs, UndoPcs
<1>1. ASSUME NEW version \in {0, sver}, Begin(version) PROVE StagedOK'
  BY <1>1 DEF Begin
<1>2. CASE RecoverPending
  BY <1>2 DEF RecoverPending
<1>3. CASE Preflight
  BY <1>3 DEF Preflight, Refuse, Return, SessionCas, SessionOwned, Conditions
<1>4. CASE Recheck
  BY <1>4 DEF Recheck, Refuse, Return, SessionCas, SessionOwned, Conditions
<1>5. CASE Reserve
  BY <1>5 DEF Reserve, CanReserve, PrepareApply, Refuse, Return, SessionCas,
     SessionOwned
<1>6. CASE MakeStaging
  BY <1>6 DEF MakeStaging
<1>7. CASE WritePlan
  BY <1>7 DEF WritePlan
<1>8. CASE CopyEntry
  <2>1. CASE pc' = "copy"
    BY <1>8, <2>1 DEF CopyEntry, Raise
  <2>2. CASE pc' = "restage"
    <3>1. idx = N /\ \A e \in 1..(idx - 1) : Op[e] # "ADD" => backup[e] = "ok"
      BY <1>8, <2>2 DEF CopyEntry, Raise
    <3>2. \A e \in Entries : Op[e] # "ADD" => backup'[e] = "ok"
      BY <1>8, <2>2, <3>1 DEF CopyEntry, Raise
    <3>. QED BY <1>8, <2>2, <3>2 DEF CopyEntry, Raise
  <2>3. CASE pc' = "handle"
    BY <1>8, <2>3 DEF CopyEntry, Raise
  <2>. QED BY <1>8, <2>1, <2>2, <2>3 DEF CopyEntry, Raise
<1>9. CASE Restage
  BY <1>9 DEF Restage, Raise, Conditions
<1>10. CASE Authorize
  BY <1>10 DEF Authorize, TransitionApplying, Raise, SessionCas, SessionOwned
<1>11. CASE MakeDirectory
  BY <1>11 DEF MakeDirectory, Raise
<1>12. CASE WriteReceipt
  BY <1>12 DEF WriteReceipt
<1>13. CASE CheckSource
  BY <1>13 DEF CheckSource, Raise
<1>14. CASE WriteIntent
  BY <1>14 DEF WriteIntent
<1>15. CASE Promote
  BY <1>15 DEF Promote, CanPromote, NextEntry, Raise
<1>16. CASE UnlinkSource
  BY <1>16 DEF UnlinkSource, NextEntry, Raise
<1>17. CASE VerifyPublished
  BY <1>17 DEF VerifyPublished, Conditions, Raise
<1>18. CASE Commit
  BY <1>18 DEF Commit, TransitionCommitted, Raise, SessionCas, SessionOwned
<1>19. CASE HandleException
  BY <1>19 DEF HandleException
<1>20. CASE Cleanup
  BY <1>20 DEF Cleanup
<1>21. CASE RecoverBegin
  BY <1>21 DEF RecoverBegin, SessionOwned
<1>22. CASE CheckUntouched
  BY <1>22 DEF CheckUntouched, Conditions
<1>23. CASE ReadPlan
  BY <1>23 DEF ReadPlan
<1>24. CASE UndoEntry
  BY <1>24 DEF UndoEntry, PrevEntry
<1>25. CASE UndoAdd
  BY <1>25 DEF UndoAdd, PrevEntry
<1>26. CASE CopyRestore
  BY <1>26 DEF CopyRestore, PrevEntry
<1>27. CASE PutBack
  BY <1>27 DEF PutBack, PrevEntry
<1>28. CASE UndoDirectory
  BY <1>28 DEF UndoDirectory
<1>29. CASE ConfirmRestored
  BY <1>29 DEF ConfirmRestored, Conditions
<1>30. CASE Settle
  BY <1>30 DEF Settle, CanSettle, TransitionRolledBack, SessionCas,
     SessionOwned
<1>31. CASE RecordFailure
  BY <1>31 DEF RecordFailure, Return
<1>32. CASE Fault
  BY <1>32 DEF Fault, SpendFault, MaybeTorn, Return, PrevEntry
<1>33. CASE LostReply
  BY <1>33 DEF LostReply, SpendFault, CanReserve, PrepareApply, SessionCas,
     SessionOwned, TransitionCommitted, TransitionRolledBack, CanSettle
<1>34. CASE Crash
  BY <1>34 DEF Crash, MaybeTorn
<1>35. ASSUME NEW f \in Entries, NEW content \in Content, EditFile(f, content)
     PROVE  StagedOK'
  BY <1>35 DEF EditFile
<1>36. ASSUME NEW d \in DirIds, EditDirectory(d) PROVE StagedOK'
  BY <1>36 DEF EditDirectory
<1>37. CASE Discard
  BY <1>37 DEF Discard
<1>38. CASE UNCHANGED vars
  BY <1>38 DEF vars
<1>. QED BY <1>1, <1>2, <1>3, <1>4, <1>5, <1>6, <1>7, <1>8, <1>9, <1>10,
     <1>11, <1>12, <1>13, <1>14, <1>15, <1>16, <1>17, <1>18, <1>19, <1>20,
     <1>21, <1>22, <1>23, <1>24, <1>25, <1>26, <1>27, <1>28, <1>29, <1>30,
     <1>31, <1>32, <1>33, <1>34, <1>35, <1>36, <1>37, <1>38
     DEF Next, ServiceStep, Environment

\* Entries are published in manifest order.
LEMMA PristineStep == ASSUME IndInv, [Next]_vars PROVE PristineOK'
<1>. USE ManifestAssumption, BoundAssumption DEF IndInv, TypeOK, tree, db,
     files, caller, history, Goto, PristineOK, IdxOK, JournalOK, TreeTypeOK,
     Entries, Pending, PreparePcs, StagePcs, PublishPcs, RecoverPcs, UndoPcs
<1>1. ASSUME NEW version \in {0, sver}, Begin(version) PROVE PristineOK'
  BY <1>1 DEF Begin
<1>2. CASE RecoverPending
  BY <1>2 DEF RecoverPending
<1>3. CASE Preflight
  BY <1>3 DEF Preflight, Refuse, Return, SessionCas, SessionOwned, Conditions
<1>4. CASE Recheck
  BY <1>4 DEF Recheck, Refuse, Return, SessionCas, SessionOwned, Conditions
<1>5. CASE Reserve
  BY <1>5 DEF Reserve, CanReserve, PrepareApply, Refuse, Return, SessionCas,
     SessionOwned
<1>6. CASE MakeStaging
  BY <1>6 DEF MakeStaging
<1>7. CASE WritePlan
  BY <1>7 DEF WritePlan
<1>8. CASE CopyEntry
  BY <1>8 DEF CopyEntry
<1>9. CASE Restage
  BY <1>9 DEF Restage, Raise, Conditions
<1>10. CASE Authorize
  BY <1>10 DEF Authorize, TransitionApplying, Raise, SessionCas, SessionOwned
<1>11. CASE MakeDirectory
  BY <1>11 DEF MakeDirectory, Raise
<1>12. CASE WriteReceipt
  BY <1>12 DEF WriteReceipt
<1>13. CASE CheckSource
  BY <1>13 DEF CheckSource, Raise
<1>14. CASE WriteIntent
  BY <1>14 DEF WriteIntent
<1>15. CASE Promote
  <2>1. pc = "promote" /\ idx \in Entries /\ UNCHANGED edited
    BY <1>15 DEF Promote, CanPromote, NextEntry, Raise
  <2>2. ASSUME NEW e \in Entries \ edited', e >= idx', pc' \in {"check", "unlink"}
        PROVE  source'[e] = "before"
    <3>1. CASE pc' = "check"
      <4>1. idx' = idx + 1
        BY <1>15, <3>1 DEF Promote, CanPromote, NextEntry, Raise
      <4>2. e # idx /\ e >= idx
        BY <2>1, <2>2, <4>1
      <4>3. source[e] = "before"
        BY <2>1, <2>2, <4>2
      <4>. QED BY <1>15, <3>1, <4>2, <4>3 DEF Promote, CanPromote, NextEntry, Raise
    <3>2. CASE pc' = "unlink"
      BY <1>15, <2>1, <2>2, <3>2 DEF Promote, CanPromote, NextEntry, Raise
    <3>. QED BY <2>2, <3>1, <3>2
  <2>. QED BY <1>15, <2>2 DEF Promote, CanPromote, NextEntry, Raise
<1>16. CASE UnlinkSource
  <2>1. pc = "unlink" /\ idx \in Entries /\ UNCHANGED edited
    BY <1>16 DEF UnlinkSource, NextEntry, Raise
  <2>2. ASSUME NEW e \in Entries \ edited', e >= idx', pc' \in {"check", "unlink"}
        PROVE  source'[e] = "before"
    <3>1. CASE pc' = "check"
      <4>1. idx' = idx + 1
        BY <1>16, <3>1 DEF UnlinkSource, NextEntry, Raise
      <4>2. e # idx /\ e >= idx
        BY <2>1, <2>2, <4>1
      <4>3. source[e] = "before"
        BY <2>1, <2>2, <4>2
      <4>. QED BY <1>16, <3>1, <4>2, <4>3 DEF UnlinkSource, NextEntry, Raise
    <3>2. CASE pc' = "unlink"
      BY <1>16, <2>1, <2>2, <3>2 DEF UnlinkSource, NextEntry, Raise
    <3>. QED BY <2>2, <3>1, <3>2
  <2>. QED BY <1>16, <2>2 DEF UnlinkSource, NextEntry, Raise
<1>17. CASE VerifyPublished
  BY <1>17 DEF VerifyPublished, Conditions, Raise
<1>18. CASE Commit
  BY <1>18 DEF Commit, TransitionCommitted, Raise, SessionCas, SessionOwned
<1>19. CASE HandleException
  BY <1>19 DEF HandleException
<1>20. CASE Cleanup
  BY <1>20 DEF Cleanup
<1>21. CASE RecoverBegin
  BY <1>21 DEF RecoverBegin, SessionOwned
<1>22. CASE CheckUntouched
  BY <1>22 DEF CheckUntouched, Conditions
<1>23. CASE ReadPlan
  BY <1>23 DEF ReadPlan
<1>24. CASE UndoEntry
  BY <1>24 DEF UndoEntry, PrevEntry
<1>25. CASE UndoAdd
  BY <1>25 DEF UndoAdd, PrevEntry
<1>26. CASE CopyRestore
  BY <1>26 DEF CopyRestore, PrevEntry
<1>27. CASE PutBack
  BY <1>27 DEF PutBack, PrevEntry
<1>28. CASE UndoDirectory
  BY <1>28 DEF UndoDirectory
<1>29. CASE ConfirmRestored
  BY <1>29 DEF ConfirmRestored, Conditions
<1>30. CASE Settle
  BY <1>30 DEF Settle, CanSettle, TransitionRolledBack, SessionCas,
     SessionOwned
<1>31. CASE RecordFailure
  BY <1>31 DEF RecordFailure, Return
<1>32. CASE Fault
  BY <1>32 DEF Fault, SpendFault, MaybeTorn, Return, PrevEntry
<1>33. CASE LostReply
  BY <1>33 DEF LostReply, SpendFault, CanReserve, PrepareApply, SessionCas,
     SessionOwned, TransitionCommitted, TransitionRolledBack, CanSettle
<1>34. CASE Crash
  BY <1>34 DEF Crash, MaybeTorn
<1>35. ASSUME NEW f \in Entries, NEW content \in Content, EditFile(f, content)
     PROVE  PristineOK'
  BY <1>35 DEF EditFile
<1>36. ASSUME NEW d \in DirIds, EditDirectory(d) PROVE PristineOK'
  BY <1>36 DEF EditDirectory
<1>37. CASE Discard
  BY <1>37 DEF Discard
<1>38. CASE UNCHANGED vars
  BY <1>38 DEF vars
<1>. QED BY <1>1, <1>2, <1>3, <1>4, <1>5, <1>6, <1>7, <1>8, <1>9, <1>10,
     <1>11, <1>12, <1>13, <1>14, <1>15, <1>16, <1>17, <1>18, <1>19, <1>20,
     <1>21, <1>22, <1>23, <1>24, <1>25, <1>26, <1>27, <1>28, <1>29, <1>30,
     <1>31, <1>32, <1>33, <1>34, <1>35, <1>36, <1>37, <1>38
     DEF Next, ServiceStep, Environment

\* An entry is published after its intent.
LEMMA IntentStep == ASSUME IndInv, [Next]_vars PROVE IntentOK'
<1>. USE ManifestAssumption, BoundAssumption DEF IndInv, TypeOK, tree, db,
     files, caller, history, Goto, IntentOK, PristineOK, IdxOK, JournalOK,
     StagedOK, TreeTypeOK, FilesTypeOK, Entries, Pending, Content, FileState,
     PreparePcs, StagePcs, PublishPcs, RecoverPcs, UndoPcs
<1>1. ASSUME NEW version \in {0, sver}, Begin(version) PROVE IntentOK'
  BY <1>1 DEF Begin
<1>2. CASE RecoverPending
  BY <1>2 DEF RecoverPending
<1>3. CASE Preflight
  BY <1>3 DEF Preflight, Refuse, Return, SessionCas, SessionOwned, Conditions
<1>4. CASE Recheck
  BY <1>4 DEF Recheck, Refuse, Return, SessionCas, SessionOwned, Conditions
<1>5. CASE Reserve
  BY <1>5 DEF Reserve, CanReserve, PrepareApply, Refuse, Return, SessionCas,
     SessionOwned
<1>6. CASE MakeStaging
  BY <1>6 DEF MakeStaging
<1>7. CASE WritePlan
  BY <1>7 DEF WritePlan
<1>8. CASE CopyEntry
  BY <1>8 DEF CopyEntry
<1>9. CASE Restage
  BY <1>9 DEF Restage, Raise, Conditions
<1>10. CASE Authorize
  BY <1>10 DEF Authorize, TransitionApplying, Raise, SessionCas, SessionOwned
<1>11. CASE MakeDirectory
  BY <1>11 DEF MakeDirectory, Raise
<1>12. CASE WriteReceipt
  BY <1>12 DEF WriteReceipt
<1>13. CASE CheckSource
  BY <1>13 DEF CheckSource, Raise
<1>14. CASE WriteIntent
  BY <1>14 DEF WriteIntent
<1>15. CASE Promote
  BY <1>15 DEF Promote, CanPromote, NextEntry, Raise
<1>16. CASE UnlinkSource
  BY <1>16 DEF UnlinkSource, NextEntry, Raise
<1>17. CASE VerifyPublished
  BY <1>17 DEF VerifyPublished, Conditions, Raise
<1>18. CASE Commit
  BY <1>18 DEF Commit, TransitionCommitted, Raise, SessionCas, SessionOwned
<1>19. CASE HandleException
  BY <1>19 DEF HandleException
<1>20. CASE Cleanup
  BY <1>20 DEF Cleanup
<1>21. CASE RecoverBegin
  BY <1>21 DEF RecoverBegin, SessionOwned
<1>22. CASE CheckUntouched
  BY <1>22 DEF CheckUntouched, Conditions
<1>23. CASE ReadPlan
  BY <1>23 DEF ReadPlan
<1>24. CASE UndoEntry
  BY <1>24 DEF UndoEntry, PrevEntry
<1>25. CASE UndoAdd
  BY <1>25 DEF UndoAdd, PrevEntry
<1>26. CASE CopyRestore
  BY <1>26 DEF CopyRestore, PrevEntry
<1>27. CASE PutBack
  BY <1>27 DEF PutBack, PrevEntry
<1>28. CASE UndoDirectory
  BY <1>28 DEF UndoDirectory
<1>29. CASE ConfirmRestored
  BY <1>29 DEF ConfirmRestored, Conditions
<1>30. CASE Settle
  BY <1>30 DEF Settle, CanSettle, TransitionRolledBack, SessionCas,
     SessionOwned
<1>31. CASE RecordFailure
  BY <1>31 DEF RecordFailure, Return
<1>32. CASE Fault
  BY <1>32 DEF Fault, SpendFault, MaybeTorn, Return, PrevEntry
<1>33. CASE LostReply
  BY <1>33 DEF LostReply, SpendFault, CanReserve, PrepareApply, SessionCas,
     SessionOwned, TransitionCommitted, TransitionRolledBack, CanSettle
<1>34. CASE Crash
  <2>1. pc' = "idle" /\ UNCHANGED <<journal, source, edited>>
    BY <1>34 DEF Crash
  <2>2. ASSUME NEW e \in Entries \ edited, source[e] = "after", journal \in Pending
        PROVE  intent'[e] = "ok"
    <3>1. e # idx \/ pc # "intent"
      BY <2>2
    <3>2. intent'[e] = intent[e]
      BY <1>34, <3>1 DEF Crash, MaybeTorn
    <3>. QED BY <2>2, <3>2
  <2>. QED BY <2>1, <2>2
<1>35. ASSUME NEW f \in Entries, NEW content \in Content, EditFile(f, content)
     PROVE  IntentOK'
  BY <1>35 DEF EditFile
<1>36. ASSUME NEW d \in DirIds, EditDirectory(d) PROVE IntentOK'
  BY <1>36 DEF EditDirectory
<1>37. CASE Discard
  BY <1>37 DEF Discard
<1>38. CASE UNCHANGED vars
  BY <1>38 DEF vars
<1>. QED BY <1>1, <1>2, <1>3, <1>4, <1>5, <1>6, <1>7, <1>8, <1>9, <1>10,
     <1>11, <1>12, <1>13, <1>14, <1>15, <1>16, <1>17, <1>18, <1>19, <1>20,
     <1>21, <1>22, <1>23, <1>24, <1>25, <1>26, <1>27, <1>28, <1>29, <1>30,
     <1>31, <1>32, <1>33, <1>34, <1>35, <1>36, <1>37, <1>38
     DEF Next, ServiceStep, Environment

\* Decisions follow a verification of the whole tree.
LEMMA VerifiedStep == ASSUME IndInv, [Next]_vars PROVE VerifiedOK'
<1>. USE ManifestAssumption, BoundAssumption DEF IndInv, TypeOK, tree, db,
     files, caller, history, Goto, VerifiedOK, JournalOK, TreeTypeOK, Entries,
     Pending, Content, PreparePcs, StagePcs, PublishPcs, RecoverPcs, UndoPcs
<1>1. ASSUME NEW version \in {0, sver}, Begin(version) PROVE VerifiedOK'
  BY <1>1 DEF Begin
<1>2. CASE RecoverPending
  BY <1>2 DEF RecoverPending
<1>3. CASE Preflight
  BY <1>3 DEF Preflight, Refuse, Return, SessionCas, SessionOwned, Conditions
<1>4. CASE Recheck
  BY <1>4 DEF Recheck, Refuse, Return, SessionCas, SessionOwned, Conditions
<1>5. CASE Reserve
  BY <1>5 DEF Reserve, CanReserve, PrepareApply, Refuse, Return, SessionCas,
     SessionOwned
<1>6. CASE MakeStaging
  BY <1>6 DEF MakeStaging
<1>7. CASE WritePlan
  BY <1>7 DEF WritePlan
<1>8. CASE CopyEntry
  BY <1>8 DEF CopyEntry
<1>9. CASE Restage
  BY <1>9 DEF Restage, Raise, Conditions
<1>10. CASE Authorize
  BY <1>10 DEF Authorize, TransitionApplying, Raise, SessionCas, SessionOwned
<1>11. CASE MakeDirectory
  BY <1>11 DEF MakeDirectory, Raise
<1>12. CASE WriteReceipt
  BY <1>12 DEF WriteReceipt
<1>13. CASE CheckSource
  BY <1>13 DEF CheckSource, Raise
<1>14. CASE WriteIntent
  BY <1>14 DEF WriteIntent
<1>15. CASE Promote
  BY <1>15 DEF Promote, CanPromote, NextEntry, Raise
<1>16. CASE UnlinkSource
  BY <1>16 DEF UnlinkSource, NextEntry, Raise
<1>17. CASE VerifyPublished
  BY <1>17 DEF VerifyPublished, Conditions, Raise
<1>18. CASE Commit
  BY <1>18 DEF Commit, TransitionCommitted, Raise, SessionCas, SessionOwned
<1>19. CASE HandleException
  BY <1>19 DEF HandleException
<1>20. CASE Cleanup
  BY <1>20 DEF Cleanup
<1>21. CASE RecoverBegin
  BY <1>21 DEF RecoverBegin, SessionOwned
<1>22. CASE CheckUntouched
  BY <1>22 DEF CheckUntouched, Conditions
<1>23. CASE ReadPlan
  BY <1>23 DEF ReadPlan
<1>24. CASE UndoEntry
  BY <1>24 DEF UndoEntry, PrevEntry
<1>25. CASE UndoAdd
  BY <1>25 DEF UndoAdd, PrevEntry
<1>26. CASE CopyRestore
  BY <1>26 DEF CopyRestore, PrevEntry
<1>27. CASE PutBack
  BY <1>27 DEF PutBack, PrevEntry
<1>28. CASE UndoDirectory
  BY <1>28 DEF UndoDirectory
<1>29. CASE ConfirmRestored
  BY <1>29 DEF ConfirmRestored, Conditions
<1>30. CASE Settle
  BY <1>30 DEF Settle, CanSettle, TransitionRolledBack, SessionCas,
     SessionOwned
<1>31. CASE RecordFailure
  BY <1>31 DEF RecordFailure, Return
<1>32. CASE Fault
  BY <1>32 DEF Fault, SpendFault, MaybeTorn, Return, PrevEntry
<1>33. CASE LostReply
  BY <1>33 DEF LostReply, SpendFault, CanReserve, PrepareApply, SessionCas,
     SessionOwned, TransitionCommitted, TransitionRolledBack, CanSettle
<1>34. CASE Crash
  BY <1>34 DEF Crash, MaybeTorn
<1>35. ASSUME NEW f \in Entries, NEW content \in Content, EditFile(f, content)
     PROVE  VerifiedOK'
  BY <1>35 DEF EditFile
<1>36. ASSUME NEW d \in DirIds, EditDirectory(d) PROVE VerifiedOK'
  BY <1>36 DEF EditDirectory
<1>37. CASE Discard
  BY <1>37 DEF Discard
<1>38. CASE UNCHANGED vars
  BY <1>38 DEF vars
<1>. QED BY <1>1, <1>2, <1>3, <1>4, <1>5, <1>6, <1>7, <1>8, <1>9, <1>10,
     <1>11, <1>12, <1>13, <1>14, <1>15, <1>16, <1>17, <1>18, <1>19, <1>20,
     <1>21, <1>22, <1>23, <1>24, <1>25, <1>26, <1>27, <1>28, <1>29, <1>30,
     <1>31, <1>32, <1>33, <1>34, <1>35, <1>36, <1>37, <1>38
     DEF Next, ServiceStep, Environment

\* A decision is only taken over a tree it is true of.
LEMMA AtomicStep == ASSUME IndInv, [Next]_vars PROVE AllOrNothing'
<1>. USE ManifestAssumption, BoundAssumption DEF IndInv, TypeOK, tree, db,
     files, caller, history, Goto, AllOrNothing, VerifiedOK, JournalOK,
     Pending, PreparePcs, StagePcs, PublishPcs, RecoverPcs, UndoPcs
<1>1. ASSUME NEW version \in {0, sver}, Begin(version) PROVE AllOrNothing'
  BY <1>1 DEF Begin
<1>2. CASE RecoverPending
  BY <1>2 DEF RecoverPending
<1>3. CASE Preflight
  BY <1>3 DEF Preflight, Refuse, Return, SessionCas, SessionOwned, Conditions
<1>4. CASE Recheck
  BY <1>4 DEF Recheck, Refuse, Return, SessionCas, SessionOwned, Conditions
<1>5. CASE Reserve
  BY <1>5 DEF Reserve, CanReserve, PrepareApply, Refuse, Return, SessionCas,
     SessionOwned
<1>6. CASE MakeStaging
  BY <1>6 DEF MakeStaging
<1>7. CASE WritePlan
  BY <1>7 DEF WritePlan
<1>8. CASE CopyEntry
  BY <1>8 DEF CopyEntry
<1>9. CASE Restage
  BY <1>9 DEF Restage, Raise, Conditions
<1>10. CASE Authorize
  BY <1>10 DEF Authorize, TransitionApplying, Raise, SessionCas, SessionOwned
<1>11. CASE MakeDirectory
  BY <1>11 DEF MakeDirectory, Raise
<1>12. CASE WriteReceipt
  BY <1>12 DEF WriteReceipt
<1>13. CASE CheckSource
  BY <1>13 DEF CheckSource, Raise
<1>14. CASE WriteIntent
  BY <1>14 DEF WriteIntent
<1>15. CASE Promote
  BY <1>15 DEF Promote, CanPromote, NextEntry, Raise
<1>16. CASE UnlinkSource
  BY <1>16 DEF UnlinkSource, NextEntry, Raise
<1>17. CASE VerifyPublished
  BY <1>17 DEF VerifyPublished, Conditions, Raise
<1>18. CASE Commit
  BY <1>18 DEF Commit, TransitionCommitted, Raise, SessionCas, SessionOwned
<1>19. CASE HandleException
  BY <1>19 DEF HandleException
<1>20. CASE Cleanup
  BY <1>20 DEF Cleanup
<1>21. CASE RecoverBegin
  BY <1>21 DEF RecoverBegin, SessionOwned
<1>22. CASE CheckUntouched
  BY <1>22 DEF CheckUntouched, Conditions
<1>23. CASE ReadPlan
  BY <1>23 DEF ReadPlan
<1>24. CASE UndoEntry
  BY <1>24 DEF UndoEntry, PrevEntry
<1>25. CASE UndoAdd
  <2>1. journal \in Pending /\ UNCHANGED journal
    BY <1>25 DEF CallerTypeOK, UndoAdd, PrevEntry
  <2>. QED BY <2>1
<1>26. CASE CopyRestore
  BY <1>26 DEF CopyRestore, PrevEntry
<1>27. CASE PutBack
  <2>1. journal \in Pending /\ UNCHANGED journal
    BY <1>27 DEF CallerTypeOK, PutBack, PrevEntry
  <2>. QED BY <2>1
<1>28. CASE UndoDirectory
  BY <1>28 DEF UndoDirectory
<1>29. CASE ConfirmRestored
  BY <1>29 DEF ConfirmRestored, Conditions
<1>30. CASE Settle
  BY <1>30 DEF Settle, CanSettle, TransitionRolledBack, SessionCas,
     SessionOwned
<1>31. CASE RecordFailure
  BY <1>31 DEF RecordFailure, Return
<1>32. CASE Fault
  BY <1>32 DEF Fault, SpendFault, MaybeTorn, Return, PrevEntry
<1>33. CASE LostReply
  BY <1>33 DEF LostReply, SpendFault, CanReserve, PrepareApply, SessionCas,
     SessionOwned, TransitionCommitted, TransitionRolledBack, CanSettle
<1>34. CASE Crash
  BY <1>34 DEF Crash, MaybeTorn
<1>35. ASSUME NEW f \in Entries, NEW content \in Content, EditFile(f, content)
     PROVE  AllOrNothing'
  BY <1>35 DEF EditFile
<1>36. ASSUME NEW d \in DirIds, EditDirectory(d) PROVE AllOrNothing'
  BY <1>36 DEF EditDirectory
<1>37. CASE Discard
  BY <1>37 DEF Discard
<1>38. CASE UNCHANGED vars
  BY <1>38 DEF vars
<1>. QED BY <1>1, <1>2, <1>3, <1>4, <1>5, <1>6, <1>7, <1>8, <1>9, <1>10,
     <1>11, <1>12, <1>13, <1>14, <1>15, <1>16, <1>17, <1>18, <1>19, <1>20,
     <1>21, <1>22, <1>23, <1>24, <1>25, <1>26, <1>27, <1>28, <1>29, <1>30,
     <1>31, <1>32, <1>33, <1>34, <1>35, <1>36, <1>37, <1>38
     DEF Next, ServiceStep, Environment

\* Session and journal are committed together.
LEMMA AppliedStep == ASSUME IndInv, [Next]_vars PROVE AppliedIffCommitted'
<1>. USE ManifestAssumption, BoundAssumption DEF IndInv, TypeOK, tree, db,
     files, caller, history, Goto, AppliedIffCommitted, JournalOK, Pending,
     PreparePcs, StagePcs, PublishPcs, RecoverPcs, UndoPcs
<1>1. ASSUME NEW version \in {0, sver}, Begin(version) PROVE AppliedIffCommitted'
  BY <1>1 DEF Begin
<1>2. CASE RecoverPending
  BY <1>2 DEF RecoverPending
<1>3. CASE Preflight
  BY <1>3 DEF Preflight, Refuse, Return, SessionCas, SessionOwned, Conditions
<1>4. CASE Recheck
  BY <1>4 DEF Recheck, Refuse, Return, SessionCas, SessionOwned, Conditions
<1>5. CASE Reserve
  BY <1>5 DEF Reserve, CanReserve, PrepareApply, Refuse, Return, SessionCas,
     SessionOwned
<1>6. CASE MakeStaging
  BY <1>6 DEF MakeStaging
<1>7. CASE WritePlan
  BY <1>7 DEF WritePlan
<1>8. CASE CopyEntry
  BY <1>8 DEF CopyEntry
<1>9. CASE Restage
  BY <1>9 DEF Restage, Raise, Conditions
<1>10. CASE Authorize
  BY <1>10 DEF Authorize, TransitionApplying, Raise, SessionCas, SessionOwned
<1>11. CASE MakeDirectory
  BY <1>11 DEF MakeDirectory, Raise
<1>12. CASE WriteReceipt
  BY <1>12 DEF WriteReceipt
<1>13. CASE CheckSource
  BY <1>13 DEF CheckSource, Raise
<1>14. CASE WriteIntent
  BY <1>14 DEF WriteIntent
<1>15. CASE Promote
  BY <1>15 DEF Promote, CanPromote, NextEntry, Raise
<1>16. CASE UnlinkSource
  BY <1>16 DEF UnlinkSource, NextEntry, Raise
<1>17. CASE VerifyPublished
  BY <1>17 DEF VerifyPublished, Conditions, Raise
<1>18. CASE Commit
  BY <1>18 DEF Commit, TransitionCommitted, Raise, SessionCas, SessionOwned
<1>19. CASE HandleException
  BY <1>19 DEF HandleException
<1>20. CASE Cleanup
  BY <1>20 DEF Cleanup
<1>21. CASE RecoverBegin
  BY <1>21 DEF RecoverBegin, SessionOwned
<1>22. CASE CheckUntouched
  BY <1>22 DEF CheckUntouched, Conditions
<1>23. CASE ReadPlan
  BY <1>23 DEF ReadPlan
<1>24. CASE UndoEntry
  BY <1>24 DEF UndoEntry, PrevEntry
<1>25. CASE UndoAdd
  BY <1>25 DEF UndoAdd, PrevEntry
<1>26. CASE CopyRestore
  BY <1>26 DEF CopyRestore, PrevEntry
<1>27. CASE PutBack
  BY <1>27 DEF PutBack, PrevEntry
<1>28. CASE UndoDirectory
  BY <1>28 DEF UndoDirectory
<1>29. CASE ConfirmRestored
  BY <1>29 DEF ConfirmRestored, Conditions
<1>30. CASE Settle
  BY <1>30 DEF Settle, CanSettle, TransitionRolledBack, SessionCas,
     SessionOwned
<1>31. CASE RecordFailure
  BY <1>31 DEF RecordFailure, Return
<1>32. CASE Fault
  BY <1>32 DEF Fault, SpendFault, MaybeTorn, Return, PrevEntry
<1>33. CASE LostReply
  BY <1>33 DEF LostReply, SpendFault, CanReserve, PrepareApply, SessionCas,
     SessionOwned, TransitionCommitted, TransitionRolledBack, CanSettle
<1>34. CASE Crash
  BY <1>34 DEF Crash, MaybeTorn
<1>35. ASSUME NEW f \in Entries, NEW content \in Content, EditFile(f, content)
     PROVE  AppliedIffCommitted'
  BY <1>35 DEF EditFile
<1>36. ASSUME NEW d \in DirIds, EditDirectory(d) PROVE AppliedIffCommitted'
  BY <1>36 DEF EditDirectory
<1>37. CASE Discard
  BY <1>37 DEF Discard
<1>38. CASE UNCHANGED vars
  BY <1>38 DEF vars
<1>. QED BY <1>1, <1>2, <1>3, <1>4, <1>5, <1>6, <1>7, <1>8, <1>9, <1>10,
     <1>11, <1>12, <1>13, <1>14, <1>15, <1>16, <1>17, <1>18, <1>19, <1>20,
     <1>21, <1>22, <1>23, <1>24, <1>25, <1>26, <1>27, <1>28, <1>29, <1>30,
     <1>31, <1>32, <1>33, <1>34, <1>35, <1>36, <1>37, <1>38
     DEF Next, ServiceStep, Environment

\* The invariant holds at the start.
LEMMA IndInit == Init => IndInv
<1>. SUFFICES ASSUME Init PROVE IndInv
  OBVIOUS
<1>. USE DEF Init
<1>1. TypeOK
  BY TypeInit
<1>2. IdxOK /\ JournalOK
  BY DEF IdxOK, JournalOK, StagePcs, PublishPcs, UndoPcs, RecoverPcs
<1>3. StagedOK
  BY DEF StagedOK, Pending
<1>4. PristineOK /\ IntentOK /\ VerifiedOK
  BY DEF PristineOK, IntentOK, VerifiedOK, Pending
<1>5. AllOrNothing /\ AppliedIffCommitted
  BY DEF AllOrNothing, AppliedIffCommitted
<1>. QED BY <1>1, <1>2, <1>3, <1>4, <1>5 DEF IndInv

\* Every step keeps the invariant.
LEMMA IndStep == ASSUME IndInv, [Next]_vars PROVE IndInv'
<1>1. TypeOK'
  BY TypeStep DEF IndInv
<1>. QED
  BY <1>1, IdxStep, JournalStep, StagedStep, PristineStep, IntentStep,
     VerifiedStep, AtomicStep, AppliedStep DEF IndInv

\* The inductive invariant holds in every reachable state.
THEOREM InductiveInvariant == Spec => []IndInv
<1>1. Init => IndInv
  BY IndInit
<1>2. IndInv /\ [Next]_vars => IndInv'
  BY IndStep
<1>. QED BY <1>1, <1>2, PTL DEF Spec

(***************************************************************************)
(* What follows from it                                                    *)
(***************************************************************************)
\* An apply is all or nothing: a COMMITTED journal has every entry published, a
\* ROLLED_BACK one every entry restored, apart from what the user edited.
THEOREM AppliesAreAtomic == Spec => []AllOrNothing
<1>1. IndInv => AllOrNothing
  BY DEF IndInv
<1>. QED BY <1>1, InductiveInvariant, PTL

\* The session is APPLIED exactly when its journal is COMMITTED.
THEOREM SessionFollowsJournal == Spec => []AppliedIffCommitted
<1>1. IndInv => AppliedIffCommitted
  BY DEF IndInv
<1>. QED BY <1>1, InductiveInvariant, PTL

\* Every published entry of a pending journal can be undone: the plan, its
\* intent and its backup are already durable.
THEOREM MutationsAreUndoable == Spec => []MutationIsUndoable
<1>1. IndInv => MutationIsUndoable
  <2>. SUFFICES ASSUME IndInv, journal \in Pending,
                       NEW e \in Entries \ edited, source[e] = "after"
                PROVE  /\ authorized /\ plan = "ok" /\ intent[e] = "ok"
                       /\ Op[e] # "ADD" => backup[e] = "ok"
    BY DEF MutationIsUndoable
  <2>1. intent[e] = "ok"
    BY DEF IndInv, IntentOK
  <2>2. authorized
    BY <2>1 DEF IndInv, StagedOK
  <2>. QED BY <2>1, <2>2 DEF IndInv, StagedOK
<1>. QED BY <1>1, InductiveInvariant, PTL

(***************************************************************************)
(* Writing to the user's tree needs a reservation                          *)
(***************************************************************************)
\* A step that writes to the tree, and is no edit, has its reservation.
LEMMA ReservedStep ==
  ASSUME IndInv, [Next]_vars, tree' # tree, used'.edits = used.edits
  PROVE  journal \in {"APPLYING", "RECOVERY_FAILED"} /\ authorized
<1>. USE ManifestAssumption DEF IndInv, TypeOK, tree, db,
     files, caller, history, Goto, JournalOK, StagedOK, IntentOK,
     CallerTypeOK, FilesTypeOK, UsedTypeOK, Pending, FileState, StagePcs,
     PublishPcs, RecoverPcs, UndoPcs
<1>1. ASSUME NEW version \in {0, sver}, Begin(version) PROVE journal \in {"APPLYING", "RECOVERY_FAILED"} /\ authorized
  BY <1>1 DEF Begin
<1>2. CASE RecoverPending
  BY <1>2 DEF RecoverPending
<1>3. CASE Preflight
  BY <1>3 DEF Preflight, Refuse, Return, SessionCas, SessionOwned, Conditions
<1>4. CASE Recheck
  BY <1>4 DEF Recheck, Refuse, Return, SessionCas, SessionOwned, Conditions
<1>5. CASE Reserve
  BY <1>5 DEF Reserve, CanReserve, PrepareApply, Refuse, Return, SessionCas,
     SessionOwned
<1>6. CASE MakeStaging
  BY <1>6 DEF MakeStaging
<1>7. CASE WritePlan
  BY <1>7 DEF WritePlan
<1>8. CASE CopyEntry
  BY <1>8 DEF CopyEntry
<1>9. CASE Restage
  BY <1>9 DEF Restage, Raise, Conditions
<1>10. CASE Authorize
  BY <1>10 DEF Authorize, TransitionApplying, Raise, SessionCas, SessionOwned
<1>11. CASE MakeDirectory
  BY <1>11 DEF MakeDirectory, Raise
<1>12. CASE WriteReceipt
  BY <1>12 DEF WriteReceipt
<1>13. CASE CheckSource
  BY <1>13 DEF CheckSource, Raise
<1>14. CASE WriteIntent
  BY <1>14 DEF WriteIntent
<1>15. CASE Promote
  BY <1>15 DEF Promote, CanPromote, NextEntry, Raise
<1>16. CASE UnlinkSource
  BY <1>16 DEF UnlinkSource, NextEntry, Raise
<1>17. CASE VerifyPublished
  BY <1>17 DEF VerifyPublished, Conditions, Raise
<1>18. CASE Commit
  BY <1>18 DEF Commit, TransitionCommitted, Raise, SessionCas, SessionOwned
<1>19. CASE HandleException
  BY <1>19 DEF HandleException
<1>20. CASE Cleanup
  BY <1>20 DEF Cleanup
<1>21. CASE RecoverBegin
  BY <1>21 DEF RecoverBegin, SessionOwned
<1>22. CASE CheckUntouched
  BY <1>22 DEF CheckUntouched, Conditions
<1>23. CASE ReadPlan
  BY <1>23 DEF ReadPlan
<1>24. CASE UndoEntry
  BY <1>24 DEF UndoEntry, PrevEntry
<1>25. CASE UndoAdd
  <2>1. idx \in Entries /\ intent[idx] = "ok"
    BY <1>25 DEF UndoAdd, IdxOK
  <2>. QED BY <1>25, <2>1 DEF UndoAdd, Entries
<1>26. CASE CopyRestore
  BY <1>26 DEF CopyRestore, PrevEntry
<1>27. CASE PutBack
  <2>1. idx \in Entries /\ intent[idx] = "ok"
    BY <1>27 DEF PutBack, IdxOK
  <2>. QED BY <1>27, <2>1 DEF PutBack, Entries
<1>28. CASE UndoDirectory
  BY <1>28 DEF UndoDirectory, Owned
<1>29. CASE ConfirmRestored
  BY <1>29 DEF ConfirmRestored, Conditions
<1>30. CASE Settle
  BY <1>30 DEF Settle, CanSettle, TransitionRolledBack, SessionCas,
     SessionOwned
<1>31. CASE RecordFailure
  BY <1>31 DEF RecordFailure, Return
<1>32. CASE Fault
  BY <1>32 DEF Fault, SpendFault, MaybeTorn, Return, PrevEntry
<1>33. CASE LostReply
  BY <1>33 DEF LostReply, SpendFault, CanReserve, PrepareApply, SessionCas,
     SessionOwned, TransitionCommitted, TransitionRolledBack, CanSettle
<1>34. CASE Crash
  BY <1>34 DEF Crash, MaybeTorn
<1>35. ASSUME NEW f \in Entries, NEW content \in Content, EditFile(f, content)
     PROVE  journal \in {"APPLYING", "RECOVERY_FAILED"} /\ authorized
  BY <1>35 DEF EditFile
<1>36. ASSUME NEW d \in DirIds, EditDirectory(d) PROVE journal \in {"APPLYING", "RECOVERY_FAILED"} /\ authorized
  BY <1>36 DEF EditDirectory
<1>37. CASE Discard
  BY <1>37 DEF Discard
<1>38. CASE UNCHANGED vars
  BY <1>38 DEF vars
<1>. QED BY <1>1, <1>2, <1>3, <1>4, <1>5, <1>6, <1>7, <1>8, <1>9, <1>10,
     <1>11, <1>12, <1>13, <1>14, <1>15, <1>16, <1>17, <1>18, <1>19, <1>20,
     <1>21, <1>22, <1>23, <1>24, <1>25, <1>26, <1>27, <1>28, <1>29, <1>30,
     <1>31, <1>32, <1>33, <1>34, <1>35, <1>36, <1>37, <1>38
     DEF Next, ServiceStep, Environment

\* Only a transaction that was authorized, and still holds its reservation,
\* writes to the user's tree.
THEOREM MutationsAreReserved == Spec => MutationNeedsReservation
<1>1. IndInv /\ [Next]_vars =>
        [tree' # tree /\ used'.edits = used.edits =>
           journal \in {"APPLYING", "RECOVERY_FAILED"} /\ authorized]_vars
  BY ReservedStep
<1>. QED BY <1>1, InductiveInvariant, PTL DEF Spec, MutationNeedsReservation

(***************************************************************************)
(* Decisions are final and reported as they are                            *)
(***************************************************************************)
\* No step takes a decision back.
LEMMA FinalStep ==
  ASSUME IndInv, [Next]_vars
  PROVE  /\ journal = "COMMITTED" => journal' = "COMMITTED"
         /\ journal = "ROLLED_BACK" => journal' \in {"ROLLED_BACK", "PREPARING"}
<1>. USE ManifestAssumption, BoundAssumption DEF IndInv, TypeOK, tree, db,
     files, caller, history, Goto, JournalOK, AppliedIffCommitted,
     CallerTypeOK, Pending, StagePcs, PublishPcs, RecoverPcs, UndoPcs
<1>1. ASSUME NEW version \in {0, sver}, Begin(version)
     PROVE  UNCHANGED journal
  BY <1>1 DEF Begin
<1>2. CASE RecoverPending
  BY <1>2 DEF RecoverPending
<1>3. CASE Preflight
  BY <1>3 DEF Preflight, Refuse, Return, SessionCas, SessionOwned, Conditions
<1>4. CASE Recheck
  BY <1>4 DEF Recheck, Refuse, Return, SessionCas, SessionOwned, Conditions
<1>5. CASE Reserve
  BY <1>5 DEF Reserve, CanReserve, PrepareApply, Refuse, Return, SessionCas,
     SessionOwned
<1>6. CASE MakeStaging
  BY <1>6 DEF MakeStaging
<1>7. CASE WritePlan
  BY <1>7 DEF WritePlan
<1>8. CASE CopyEntry
  BY <1>8 DEF CopyEntry
<1>9. CASE Restage
  BY <1>9 DEF Restage, Raise, Conditions
<1>10. CASE Authorize
  BY <1>10 DEF Authorize, TransitionApplying, Raise, SessionCas, SessionOwned
<1>11. CASE MakeDirectory
  BY <1>11 DEF MakeDirectory, Raise
<1>12. CASE WriteReceipt
  BY <1>12 DEF WriteReceipt
<1>13. CASE CheckSource
  BY <1>13 DEF CheckSource, Raise
<1>14. CASE WriteIntent
  BY <1>14 DEF WriteIntent
<1>15. CASE Promote
  BY <1>15 DEF Promote, CanPromote, NextEntry, Raise
<1>16. CASE UnlinkSource
  BY <1>16 DEF UnlinkSource, NextEntry, Raise
<1>17. CASE VerifyPublished
  BY <1>17 DEF VerifyPublished, Conditions, Raise
<1>18. CASE Commit
  BY <1>18 DEF Commit, TransitionCommitted, Raise, SessionCas, SessionOwned
<1>19. CASE HandleException
  BY <1>19 DEF HandleException
<1>20. CASE Cleanup
  BY <1>20 DEF Cleanup
<1>21. CASE RecoverBegin
  BY <1>21 DEF RecoverBegin, SessionOwned
<1>22. CASE CheckUntouched
  BY <1>22 DEF CheckUntouched, Conditions
<1>23. CASE ReadPlan
  BY <1>23 DEF ReadPlan
<1>24. CASE UndoEntry
  BY <1>24 DEF UndoEntry, PrevEntry
<1>25. CASE UndoAdd
  BY <1>25 DEF UndoAdd, PrevEntry
<1>26. CASE CopyRestore
  BY <1>26 DEF CopyRestore, PrevEntry
<1>27. CASE PutBack
  BY <1>27 DEF PutBack, PrevEntry
<1>28. CASE UndoDirectory
  BY <1>28 DEF UndoDirectory
<1>29. CASE ConfirmRestored
  BY <1>29 DEF ConfirmRestored, Conditions
<1>30. CASE Settle
  BY <1>30 DEF Settle, CanSettle, TransitionRolledBack, SessionCas,
     SessionOwned
<1>31. CASE RecordFailure
  BY <1>31 DEF RecordFailure, Return
<1>32. CASE Fault
  BY <1>32 DEF Fault, SpendFault, MaybeTorn, Return, PrevEntry
<1>33. CASE LostReply
  BY <1>33 DEF LostReply, SpendFault, CanReserve, PrepareApply, SessionCas,
     SessionOwned, TransitionCommitted, TransitionRolledBack, CanSettle
<1>34. CASE Crash
  BY <1>34 DEF Crash, MaybeTorn
<1>35. ASSUME NEW f \in Entries, NEW content \in Content, EditFile(f, content)
     PROVE  UNCHANGED journal
  BY <1>35 DEF EditFile
<1>36. ASSUME NEW d \in DirIds, EditDirectory(d) PROVE UNCHANGED journal
  BY <1>36 DEF EditDirectory
<1>37. CASE Discard
  BY <1>37 DEF Discard
<1>38. CASE UNCHANGED vars
  BY <1>38 DEF vars
<1>. QED BY <1>1, <1>2, <1>3, <1>4, <1>5, <1>6, <1>7, <1>8, <1>9, <1>10,
     <1>11, <1>12, <1>13, <1>14, <1>15, <1>16, <1>17, <1>18, <1>19, <1>20,
     <1>21, <1>22, <1>23, <1>24, <1>25, <1>26, <1>27, <1>28, <1>29, <1>30,
     <1>31, <1>32, <1>33, <1>34, <1>35, <1>36, <1>37, <1>38
     DEF Next, ServiceStep, Environment

\* COMMITTED is for ever, and ROLLED_BACK lasts until the next reservation.
THEOREM DecisionsAreFinal == Spec => DecisionIsFinal
<1>1. IndInv /\ [Next]_vars =>
        [/\ journal = "COMMITTED" => journal' = "COMMITTED"
         /\ journal = "ROLLED_BACK" => journal' \in {"ROLLED_BACK", "PREPARING"}]_vars
  BY FinalStep
<1>. QED BY <1>1, InductiveInvariant, PTL DEF Spec, DecisionIsFinal

\* While a call runs it has reported nothing, and a report of a decision
\* agrees with the journal.
ReportOK ==
  /\ pc \notin {"idle", "cleanup"} => result = "none"
  /\ ReportedOutcomeIsDurable

\* Reports keep agreeing with the journal.
LEMMA ReportStep == ASSUME IndInv, ReportOK, [Next]_vars PROVE ReportOK'
<1>. USE ManifestAssumption, BoundAssumption DEF ReportOK,
     ReportedOutcomeIsDurable, IndInv, TypeOK, tree, db, files, caller,
     history, Goto, JournalOK, CallerTypeOK, Pending, StagePcs, PublishPcs,
     RecoverPcs, UndoPcs
<1>1. ASSUME NEW version \in {0, sver}, Begin(version) PROVE ReportOK'
  BY <1>1 DEF Begin
<1>2. CASE RecoverPending
  BY <1>2 DEF RecoverPending
<1>3. CASE Preflight
  BY <1>3 DEF Preflight, Refuse, Return, SessionCas, SessionOwned, Conditions
<1>4. CASE Recheck
  BY <1>4 DEF Recheck, Refuse, Return, SessionCas, SessionOwned, Conditions
<1>5. CASE Reserve
  BY <1>5 DEF Reserve, CanReserve, PrepareApply, Refuse, Return, SessionCas,
     SessionOwned
<1>6. CASE MakeStaging
  BY <1>6 DEF MakeStaging
<1>7. CASE WritePlan
  BY <1>7 DEF WritePlan
<1>8. CASE CopyEntry
  BY <1>8 DEF CopyEntry
<1>9. CASE Restage
  BY <1>9 DEF Restage, Raise, Conditions
<1>10. CASE Authorize
  BY <1>10 DEF Authorize, TransitionApplying, Raise, SessionCas, SessionOwned
<1>11. CASE MakeDirectory
  BY <1>11 DEF MakeDirectory, Raise
<1>12. CASE WriteReceipt
  BY <1>12 DEF WriteReceipt
<1>13. CASE CheckSource
  BY <1>13 DEF CheckSource, Raise
<1>14. CASE WriteIntent
  BY <1>14 DEF WriteIntent
<1>15. CASE Promote
  BY <1>15 DEF Promote, CanPromote, NextEntry, Raise
<1>16. CASE UnlinkSource
  BY <1>16 DEF UnlinkSource, NextEntry, Raise
<1>17. CASE VerifyPublished
  BY <1>17 DEF VerifyPublished, Conditions, Raise
<1>18. CASE Commit
  BY <1>18 DEF Commit, TransitionCommitted, Raise, SessionCas, SessionOwned
<1>19. CASE HandleException
  BY <1>19 DEF HandleException
<1>20. CASE Cleanup
  BY <1>20 DEF Cleanup
<1>21. CASE RecoverBegin
  BY <1>21 DEF RecoverBegin, SessionOwned
<1>22. CASE CheckUntouched
  BY <1>22 DEF CheckUntouched, Conditions
<1>23. CASE ReadPlan
  BY <1>23 DEF ReadPlan
<1>24. CASE UndoEntry
  BY <1>24 DEF UndoEntry, PrevEntry
<1>25. CASE UndoAdd
  BY <1>25 DEF UndoAdd, PrevEntry
<1>26. CASE CopyRestore
  BY <1>26 DEF CopyRestore, PrevEntry
<1>27. CASE PutBack
  BY <1>27 DEF PutBack, PrevEntry
<1>28. CASE UndoDirectory
  BY <1>28 DEF UndoDirectory
<1>29. CASE ConfirmRestored
  BY <1>29 DEF ConfirmRestored, Conditions
<1>30. CASE Settle
  BY <1>30 DEF Settle, CanSettle, TransitionRolledBack, SessionCas,
     SessionOwned
<1>31. CASE RecordFailure
  BY <1>31 DEF RecordFailure, Return
<1>32. CASE Fault
  BY <1>32 DEF Fault, SpendFault, MaybeTorn, Return, PrevEntry
<1>33. CASE LostReply
  BY <1>33 DEF LostReply, SpendFault, CanReserve, PrepareApply, SessionCas,
     SessionOwned, TransitionCommitted, TransitionRolledBack, CanSettle
<1>34. CASE Crash
  BY <1>34 DEF Crash, MaybeTorn
<1>35. ASSUME NEW f \in Entries, NEW content \in Content, EditFile(f, content)
     PROVE  ReportOK'
  BY <1>35 DEF EditFile
<1>36. ASSUME NEW d \in DirIds, EditDirectory(d) PROVE ReportOK'
  BY <1>36 DEF EditDirectory
<1>37. CASE Discard
  BY <1>37 DEF Discard
<1>38. CASE UNCHANGED vars
  BY <1>38 DEF vars
<1>. QED BY <1>1, <1>2, <1>3, <1>4, <1>5, <1>6, <1>7, <1>8, <1>9, <1>10,
     <1>11, <1>12, <1>13, <1>14, <1>15, <1>16, <1>17, <1>18, <1>19, <1>20,
     <1>21, <1>22, <1>23, <1>24, <1>25, <1>26, <1>27, <1>28, <1>29, <1>30,
     <1>31, <1>32, <1>33, <1>34, <1>35, <1>36, <1>37, <1>38
     DEF Next, ServiceStep, Environment

\* A call reports COMMITTED or ROLLED_BACK only for what the journal holds.
THEOREM ReportsAreDurable == Spec => []ReportedOutcomeIsDurable
<1>1. Init => ReportOK
  BY DEF Init, ReportOK, ReportedOutcomeIsDurable
<1>2. IndInv /\ ReportOK /\ [Next]_vars => ReportOK'
  BY ReportStep
<1>3. ReportOK => ReportedOutcomeIsDurable
  BY DEF ReportOK
<1>. QED BY <1>1, <1>2, <1>3, InductiveInvariant, PTL DEF Spec

(***************************************************************************)
(* The service implements the atomic apply                                 *)
(***************************************************************************)
\* A reservation of the journal is a reservation.
LEMMA ReserveRefines ==
  ASSUME IndInv, CanReserve, PrepareApply, UNCHANGED source PROVE Abstract!Reserve
<1>1. journal \in {"none", "ROLLED_BACK"}
  BY DEF IndInv, TypeOK, DbTypeOK, AppliedIffCommitted, CanReserve, SessionCas,
         SessionOwned
<1>. QED BY <1>1 DEF Abstract!Reserve, Decision, Pending, PrepareApply

\* One entry written under a pending journal is a write.
LEMMA WriteRefines ==
  ASSUME journal \in Pending, NEW e \in Entries, NEW c \in {"before", "after"},
         source' = [source EXCEPT ![e] = c], UNCHANGED <<journal, edited>>
  PROVE  Abstract!Next
<1>1. Abstract!Write(e)
  BY DEF Abstract!Write, Decision
<1>. QED BY <1>1 DEF Abstract!Next

\* The journal commits after the whole tree was verified: a commit.
LEMMA CommitRefines ==
  ASSUME IndInv, pc = "commit", journal = "APPLYING", TransitionCommitted,
         UNCHANGED <<source, edited>>
  PROVE  Abstract!Commit
  BY DEF IndInv, VerifiedOK, TransitionCommitted, Decision, Pending,
         Abstract!Commit, Abstract!Untouched

\* The journal settles after the whole tree was verified: a rollback.
LEMMA SettleRefines ==
  ASSUME IndInv, pc = "settle", CanSettle, TransitionRolledBack,
         UNCHANGED <<source, edited>>
  PROVE  Abstract!RollBack
<1>1. journal \in Pending
  BY DEF IndInv, TypeOK, CallerTypeOK, CanSettle
<1>2. Abstract!Untouched("before")
  BY DEF IndInv, VerifiedOK, Abstract!Untouched
<1>. QED BY <1>1, <1>2 DEF TransitionRolledBack, Decision, Pending, Abstract!RollBack

\* Every step is a step of the atomic apply, or none.
LEMMA RefineStep == ASSUME IndInv, [Next]_vars PROVE [Abstract!Next]_(Abstract!vars)
<1>. USE ManifestAssumption, BoundAssumption DEF IndInv, TypeOK, tree, db,
     files, caller, history, Goto, Decision, Abstract!vars, Pending
<1>1. ASSUME NEW version \in {0, sver}, Begin(version) PROVE [Abstract!Next]_(Abstract!vars)
  BY <1>1 DEF Begin
<1>2. CASE RecoverPending
  BY <1>2 DEF RecoverPending
<1>3. CASE Preflight
  BY <1>3 DEF Preflight, Refuse, Return, SessionCas, SessionOwned, Conditions
<1>4. CASE Recheck
  BY <1>4 DEF Recheck, Refuse, Return, SessionCas, SessionOwned, Conditions
<1>5. CASE Reserve
  <2>1. CASE CanReserve /\ PrepareApply /\ UNCHANGED source
    BY <2>1, ReserveRefines DEF Abstract!Next
  <2>2. CASE Refuse
    BY <2>2 DEF Refuse
  <2>. QED BY <1>5, <2>1, <2>2 DEF Reserve
<1>6. CASE MakeStaging
  BY <1>6 DEF MakeStaging
<1>7. CASE WritePlan
  BY <1>7 DEF WritePlan
<1>8. CASE CopyEntry
  BY <1>8 DEF CopyEntry
<1>9. CASE Restage
  BY <1>9 DEF Restage, Raise, Conditions
<1>10. CASE Authorize
  BY <1>10 DEF Authorize, TransitionApplying, Raise, SessionCas, SessionOwned
<1>11. CASE MakeDirectory
  BY <1>11 DEF MakeDirectory, Raise
<1>12. CASE WriteReceipt
  BY <1>12 DEF WriteReceipt
<1>13. CASE CheckSource
  BY <1>13 DEF CheckSource, Raise
<1>14. CASE WriteIntent
  BY <1>14 DEF WriteIntent
<1>15. CASE Promote
  <2>1. idx \in Entries /\ journal \in Pending
    BY <1>15 DEF Promote, IdxOK, JournalOK, CallerTypeOK, PublishPcs
  <2>2. CASE source' = [source EXCEPT ![idx] = "after"] /\ UNCHANGED <<journal, edited>>
    BY <2>1, <2>2, WriteRefines
  <2>3. CASE UNCHANGED <<source, journal, edited>>
    BY <2>3
  <2>. QED BY <1>15, <2>2, <2>3 DEF Promote, Raise
<1>16. CASE UnlinkSource
  <2>1. idx \in Entries /\ journal \in Pending
    BY <1>16 DEF UnlinkSource, IdxOK, JournalOK, CallerTypeOK, PublishPcs
  <2>2. CASE source' = [source EXCEPT ![idx] = "after"] /\ UNCHANGED <<journal, edited>>
    BY <2>1, <2>2, WriteRefines
  <2>3. CASE UNCHANGED <<source, journal, edited>>
    BY <2>3
  <2>. QED BY <1>16, <2>2, <2>3 DEF UnlinkSource, Raise
<1>17. CASE VerifyPublished
  BY <1>17 DEF VerifyPublished, Conditions, Raise
<1>18. CASE Commit
  <2>1. CASE journal = "APPLYING" /\ TransitionCommitted /\ UNCHANGED <<source, edited>>
    BY <1>18, <2>1, CommitRefines DEF Commit, Abstract!Next
  <2>2. CASE Raise
    BY <2>2 DEF Raise
  <2>. QED BY <1>18, <2>1, <2>2 DEF Commit
<1>19. CASE HandleException
  BY <1>19 DEF HandleException
<1>20. CASE Cleanup
  BY <1>20 DEF Cleanup
<1>21. CASE RecoverBegin
  BY <1>21 DEF RecoverBegin, SessionOwned
<1>22. CASE CheckUntouched
  BY <1>22 DEF CheckUntouched, Conditions
<1>23. CASE ReadPlan
  BY <1>23 DEF ReadPlan
<1>24. CASE UndoEntry
  BY <1>24 DEF UndoEntry, PrevEntry
<1>25. CASE UndoAdd
  <2>1. idx \in Entries /\ journal \in Pending
    BY <1>25 DEF UndoAdd, IdxOK, JournalOK, CallerTypeOK, UndoPcs, RecoverPcs
  <2>2. CASE source' = [source EXCEPT ![idx] = "before"] /\ UNCHANGED <<journal, edited>>
    BY <2>1, <2>2, WriteRefines
  <2>3. CASE UNCHANGED <<source, journal, edited>>
    BY <2>3
  <2>. QED BY <1>25, <2>2, <2>3 DEF UndoAdd
<1>26. CASE CopyRestore
  BY <1>26 DEF CopyRestore, PrevEntry
<1>27. CASE PutBack
  <2>1. idx \in Entries /\ journal \in Pending
    BY <1>27 DEF PutBack, IdxOK, JournalOK, CallerTypeOK, UndoPcs, RecoverPcs
  <2>2. CASE source' = [source EXCEPT ![idx] = "before"] /\ UNCHANGED <<journal, edited>>
    BY <2>1, <2>2, WriteRefines
  <2>3. CASE UNCHANGED <<source, journal, edited>>
    BY <2>3
  <2>. QED BY <1>27, <2>2, <2>3 DEF PutBack
<1>28. CASE UndoDirectory
  BY <1>28 DEF UndoDirectory
<1>29. CASE ConfirmRestored
  BY <1>29 DEF ConfirmRestored, Conditions
<1>30. CASE Settle
  <2>1. CASE CanSettle /\ TransitionRolledBack /\ UNCHANGED <<source, edited>>
    BY <1>30, <2>1, SettleRefines DEF Settle, Abstract!Next
  <2>2. CASE UNCHANGED <<source, journal, edited>>
    BY <2>2
  <2>. QED BY <1>30, <2>1, <2>2 DEF Settle
<1>31. CASE RecordFailure
  BY <1>31 DEF RecordFailure, Return
<1>32. CASE Fault
  BY <1>32 DEF Fault, SpendFault, MaybeTorn, Return, PrevEntry
<1>33. CASE LostReply
  <2>1. CASE CanReserve /\ PrepareApply
    BY <1>33, <2>1, ReserveRefines DEF LostReply, Abstract!Next
  <2>2. CASE pc = "authorize" /\ journal = "PREPARING" /\ journal' = "APPLYING" /\ UNCHANGED edited
    BY <1>33, <2>2 DEF LostReply
  <2>3. CASE pc = "commit" /\ journal = "APPLYING" /\ TransitionCommitted /\ UNCHANGED edited
    BY <1>33, <2>3, CommitRefines DEF LostReply, Abstract!Next
  <2>4. CASE pc = "settle" /\ CanSettle /\ TransitionRolledBack /\ UNCHANGED edited
    BY <1>33, <2>4, SettleRefines DEF LostReply, Abstract!Next
  <2>. QED BY <1>33, <2>1, <2>2, <2>3, <2>4 DEF LostReply
<1>34. CASE Crash
  BY <1>34 DEF Crash, MaybeTorn
<1>35. ASSUME NEW f \in Entries, NEW content \in Content, EditFile(f, content)
     PROVE  [Abstract!Next]_(Abstract!vars)
  <2>1. Abstract!Edit(f)
    BY <1>35 DEF EditFile, Abstract!Edit, Abstract!Contents, Content
  <2>. QED BY <2>1 DEF Abstract!Next
<1>36. ASSUME NEW d \in DirIds, EditDirectory(d) PROVE [Abstract!Next]_(Abstract!vars)
  BY <1>36 DEF EditDirectory
<1>37. CASE Discard
  BY <1>37 DEF Discard
<1>38. CASE UNCHANGED vars
  BY <1>38 DEF vars
<1>. QED BY <1>1, <1>2, <1>3, <1>4, <1>5, <1>6, <1>7, <1>8, <1>9, <1>10,
     <1>11, <1>12, <1>13, <1>14, <1>15, <1>16, <1>17, <1>18, <1>19, <1>20,
     <1>21, <1>22, <1>23, <1>24, <1>25, <1>26, <1>27, <1>28, <1>29, <1>30,
     <1>31, <1>32, <1>33, <1>34, <1>35, <1>36, <1>37, <1>38
     DEF Next, ServiceStep, Environment

\* In every reachable state every variable has its type and the project is safe from half an apply: a commit is
\* over a published tree, the session row agrees with the journal, and what the
\* service changed it can undo.
THEOREM ProjectsAreSafe == Spec => []ProjectIsSafe
  BY TypeCorrect, AppliesAreAtomic, SessionFollowsJournal, MutationsAreUndoable, PTL
     DEF ProjectIsSafe

\* The journal leads and the source follows: nothing is written without a
\* reservation, and no step takes a recorded decision back.
THEOREM JournalsLead == Spec => JournalLeads
  BY MutationsAreReserved, DecisionsAreFinal DEF JournalLeads

\* Every behaviour of the service, with its crashes, exceptions, lost replies,
\* recoveries and edits, is one of the atomic apply.
THEOREM ServiceIsAtomic == Spec => ImplementsAtomicApply
<1>1. Init => Abstract!Init
  BY DEF Init, Abstract!Init, Decision, Pending
<1>2. IndInv /\ [Next]_vars => [Abstract!Next]_(Abstract!vars)
  BY RefineStep
<1>. QED
  BY <1>1, <1>2, InductiveInvariant, PTL DEF Spec, ImplementsAtomicApply, Abstract!Spec

(***************************************************************************)
(* A new file is never clobbered                                           *)
(***************************************************************************)
\* Only the entry of a DELETE is unlinked.
UnlinkOK == pc = "unlink" => Op[idx] = "DELETE"

LEMMA UnlinkStep == ASSUME IndInv, UnlinkOK, [Next]_vars PROVE UnlinkOK'
<1>1. CASE Promote
  BY <1>1 DEF Promote, NextEntry, Raise, Goto, UnlinkOK, tree, db, files, history
<1>2. ASSUME pc' = "unlink", ~Promote PROVE pc = "unlink" /\ idx' = idx
  BY <1>2 DEF Next, vars, caller, Begin, RecoverPending, ServiceStep, Preflight, Recheck, Reserve,
     MakeStaging, WritePlan, CopyEntry, Restage, Authorize, MakeDirectory, WriteReceipt,
     CheckSource, WriteIntent, UnlinkSource, VerifyPublished, Commit, HandleException, Cleanup,
     RecoverBegin, CheckUntouched, ReadPlan, UndoEntry, UndoAdd, CopyRestore, PutBack,
     UndoDirectory, ConfirmRestored, Settle, RecordFailure, Fault, LostReply, Crash, Environment,
     EditFile, EditDirectory, Discard, Goto, Return, Refuse, Raise, NextEntry, PrevEntry
<1> QED BY <1>1, <1>2 DEF UnlinkOK

\* The service itself writes a new file over nothing but an absent one.
LEMMA ClobberStep ==
  ASSUME IndInv, UnlinkOK, [Next]_vars, NEW e \in Entries,
         Op[e] = "ADD", source[e] = "foreign", source'[e] = "after"
  PROVE  used'.edits > used.edits
<1>0. /\ source \in [Entries -> Content] /\ used.edits \in Nat
      /\ used \in [applies : 0..MaxApplies, crashes : 0..MaxCrashes,
                   faults : 0..MaxFaults, edits : 0..MaxEdits, discards : 0..MaxDiscards]
  BY BoundAssumption DEF IndInv, TypeOK, TreeTypeOK, UsedTypeOK
<1>1. ASSUME NEW f \in Entries, NEW content \in Content, EditFile(f, content)
      PROVE  used'.edits > used.edits
  <2>1. used' = [used EXCEPT !.edits = used.edits + 1]
    BY <1>1 DEF EditFile
  <2>2. used'.edits = used.edits + 1
    BY <1>0, <2>1
  <2> QED BY <1>0, <2>2
<1>2. CASE Promote
  BY <1>0, <1>2 DEF Promote, CanPromote, Raise, tree, IndInv, IdxOK
<1>3. CASE UnlinkSource
  BY <1>0, <1>3 DEF UnlinkSource, UnlinkOK, Raise, tree, IndInv, IdxOK
<1>4. ASSUME ~Promote, ~UnlinkSource, \A f \in Entries, content \in Content : ~EditFile(f, content)
      PROVE  FALSE
  <2>1. \/ source' = source \/ source' = [source EXCEPT ![idx] = "before"]
    BY <1>4 DEF Next, vars, tree, Begin, RecoverPending, ServiceStep, Preflight, Recheck, Reserve,
       MakeStaging, WritePlan, CopyEntry, Restage, Authorize, MakeDirectory, WriteReceipt,
       CheckSource, WriteIntent, VerifyPublished, Commit, HandleException, Cleanup,
       RecoverBegin, CheckUntouched, ReadPlan, UndoEntry, UndoAdd, CopyRestore, PutBack,
       UndoDirectory, ConfirmRestored, Settle, RecordFailure, Fault, LostReply, Crash, Environment,
       EditDirectory, Discard, Refuse, Raise
  <2> QED BY <1>0, <2>1
<1> QED BY <1>1, <1>2, <1>3, <1>4

\* Whatever appears under the name of a new file between the last check and the link is not
\* overwritten: only the user's own edits turn it into something else.
THEOREM NewFilesAreNotClobbered == Spec => PublishNeverClobbersNewFile
<1>1. Init => UnlinkOK
  BY DEF Init, UnlinkOK
<1>2. IndInv /\ UnlinkOK /\ [Next]_vars => UnlinkOK'
  BY UnlinkStep
<1>3. IndInv /\ UnlinkOK /\ [Next]_vars =>
        \A e \in Entries : Op[e] = "ADD" /\ source[e] = "foreign" /\ source'[e] = "after"
          => used'.edits > used.edits
  BY ClobberStep
<1> QED BY <1>1, <1>2, <1>3, InductiveInvariant, PTL DEF Spec, PublishNeverClobbersNewFile

(***************************************************************************)
(* Crashes alone                                                           *)
(***************************************************************************)
Alone == used.edits = 0 /\ used.faults = 0 /\ used.discards = 0

\* Nothing but the service wrote, nothing is torn, and no step has failed.
SmoothOK ==
  /\ edited = {} /\ sess # "DISCARDED" /\ \A e \in Entries : source[e] # "foreign"
  /\ plan # "torn" /\ \A e \in Entries : backup[e] # "torn" /\ intent[e] # "torn"
  /\ journal # "RECOVERY_FAILED" /\ result # "RECOVERY_FAILED" /\ pc \notin {"handle", "recfail"}
  /\ pc = "precheck" => seen = "PREPARING"

\* The caller's version of the session is the row's.
HeldOK == pc \in StagePcs \cup PublishPcs \cup (RecoverPcs \ {"recover"}) => held = sver

\* Publication has reached what lies before the current entry.
ReachOK ==
  /\ pc = "reserve" => Conditions("before")
  /\ pc \in {"check", "intent", "promote", "unlink"} =>
       \A e \in Entries : e < idx => source[e] = "after"
  /\ pc \in {"verify", "commit"} => Conditions("after")

\* And a rollback has restored what lies after it.
RestoreOK ==
  /\ pc \in UndoPcs \cup {"readplan"} => ~failed
  /\ pc \in {"undo", "undoadd", "restore", "putback"} =>
       \A e \in Entries : e > idx => source[e] = "before"
  /\ pc \in {"undoadd", "restore", "putback"} => source[idx] = "after"
  /\ pc \in {"restore", "putback"} => Op[idx] # "ADD"
  /\ pc \in {"undodir", "confirm", "settle"} => Conditions("before")

CrashInv == Alone => SmoothOK /\ HeldOK /\ ReachOK /\ RestoreOK

\* With nothing else spent, a step is one of the service, a start or a crash.
LEMMA OnlyCrashes ==
  ASSUME IndInv, Alone', [Next]_vars
  PROVE  /\ Alone
         /\ \/ \E version \in {0, sver} : Begin(version)
            \/ RecoverPending \/ ServiceStep \/ Crash \/ UNCHANGED vars
<1>0. /\ used.edits \in Nat /\ used.faults \in Nat /\ used.discards \in Nat
      /\ used \in [applies : 0..MaxApplies, crashes : 0..MaxCrashes,
                   faults : 0..MaxFaults, edits : 0..MaxEdits, discards : 0..MaxDiscards]
  BY BoundAssumption DEF IndInv, TypeOK, UsedTypeOK
<1>1. ~Fault /\ ~LostReply
  <2>1. ASSUME used' = [used EXCEPT !.faults = used.faults + 1] PROVE FALSE
    <3>1. used'.faults = used.faults + 1
      BY <1>0, <2>1
    <3> QED BY <1>0, <3>1 DEF Alone
  <2> QED BY <2>1 DEF Fault, LostReply, SpendFault
<1>2. ~Environment
  <2>1. ASSUME used' = [used EXCEPT !.edits = used.edits + 1] PROVE FALSE
    <3>1. used'.edits = used.edits + 1
      BY <1>0, <2>1
    <3> QED BY <1>0, <3>1 DEF Alone
  <2>2. ASSUME used' = [used EXCEPT !.discards = used.discards + 1] PROVE FALSE
    <3>1. used'.discards = used.discards + 1
      BY <1>0, <2>2
    <3> QED BY <1>0, <3>1 DEF Alone
  <2> QED BY <2>1, <2>2 DEF Environment, EditFile, EditDirectory, Discard
<1>3. \/ \E version \in {0, sver} : Begin(version)
      \/ RecoverPending \/ ServiceStep \/ Crash \/ UNCHANGED vars
  BY <1>1, <1>2 DEF Next
<1>4. \/ used' = used \/ used' = [used EXCEPT !.applies = used.applies + 1]
      \/ used' = [used EXCEPT !.crashes = used.crashes + 1]
  BY <1>3 DEF vars, Begin, RecoverPending, ServiceStep, Preflight, Recheck, Reserve,
     MakeStaging, WritePlan, CopyEntry, Restage, Authorize, MakeDirectory, WriteReceipt,
     CheckSource, WriteIntent, Promote, UnlinkSource, VerifyPublished, Commit, HandleException,
     Cleanup, RecoverBegin, CheckUntouched, ReadPlan, UndoEntry, UndoAdd, CopyRestore, PutBack,
     UndoDirectory, ConfirmRestored, Settle, RecordFailure, Crash, Refuse, Raise
<1>5. Alone
  BY <1>0, <1>4 DEF Alone
<1> QED BY <1>3, <1>5

\* What every step of an undisturbed call finds.
LEMMA Guards ==
  ASSUME IndInv, SmoothOK, HeldOK, ReachOK, D = 0
  PROVE  /\ pc = "mkdir" => idx > D
         /\ pc \in {"check", "intent", "promote", "unlink"} => source[idx] = "before"
         /\ \A e \in Entries : Parent[e] = 0
         /\ pc = "verify" => Conditions("after")
         /\ pc \in {"stage", "plan", "copy", "restage", "authorize", "precheck"} => Conditions("before")
         /\ journal \in Pending => SessionOwned
         /\ pc \in StagePcs \cup PublishPcs \cup {"settle"} => SessionCas
         /\ pc = "readplan" => plan = "ok"
         /\ pc = "restore" => Op[idx] = "ADD" \/ backup[idx] = "ok"
<1>1. /\ TypeOK /\ IdxOK /\ JournalOK /\ StagedOK /\ PristineOK /\ AppliedIffCommitted
      /\ edited = {} /\ sess # "DISCARDED" /\ journal # "RECOVERY_FAILED"
  BY DEF IndInv, SmoothOK
<1>2. pc = "mkdir" => idx > D
  BY <1>1 DEF IdxOK
<1>3. \A e \in Entries : Parent[e] = 0
  BY ManifestAssumption
<1>4. pc \in {"check", "intent", "promote", "unlink"} => source[idx] = "before"
  BY <1>1 DEF IdxOK, PristineOK, TypeOK, CallerTypeOK
<1>5. pc = "verify" => Conditions("after")
  BY DEF ReachOK
<1>6. journal \in Pending => SessionOwned
  BY <1>1 DEF AppliedIffCommitted, SessionOwned, Pending, TypeOK, DbTypeOK
<1>7. pc \in StagePcs \cup PublishPcs \cup {"settle"} => journal \in Pending /\ held = sver
  <2>1. pc \in StagePcs \cup PublishPcs => journal \in Pending
    BY <1>1 DEF JournalOK, Pending
  <2>2. pc = "settle" => journal \in Pending
    BY <1>1 DEF JournalOK, TypeOK, CallerTypeOK, RecoverPcs
  <2>3. pc \in StagePcs \cup PublishPcs \cup {"settle"} => held = sver
    BY DEF HeldOK, RecoverPcs
  <2> QED BY <2>1, <2>2, <2>3
<1>8. pc \in StagePcs \cup PublishPcs \cup {"settle"} => SessionCas
  BY <1>6, <1>7 DEF SessionCas
<1>9. pc \in {"stage", "plan", "copy", "restage", "authorize"} => journal = "PREPARING"
  BY <1>1 DEF JournalOK, StagePcs
<1>10. pc \in {"precheck", "readplan", "restore"} => journal = seen
  BY <1>1 DEF JournalOK, RecoverPcs, UndoPcs
<1>11. pc \in {"readplan", "restore"} => seen = "APPLYING"
  BY <1>1, <1>10 DEF JournalOK, UndoPcs, TypeOK, CallerTypeOK, Pending
<1>12. pc \in {"readplan", "restore"} =>
         plan = "ok" /\ \A e \in Entries : Op[e] # "ADD" => backup[e] = "ok"
  BY <1>1, <1>10, <1>11 DEF JournalOK, StagedOK, Pending
<1>13. pc = "restore" => Op[idx] = "ADD" \/ backup[idx] = "ok"
  BY <1>1, <1>12 DEF IdxOK
<1>14. journal = "PREPARING" => Conditions("before")
  BY <1>1 DEF JournalOK, PristineOK, Conditions, Pending
<1>15. pc = "precheck" => journal = "PREPARING"
  BY <1>10 DEF SmoothOK
<1> QED BY <1>2, <1>3, <1>4, <1>5, <1>6, <1>8, <1>9, <1>12, <1>13, <1>14, <1>15

\* So none of the checks of a publication fails.
LEMMA Proceeds ==
  ASSUME IndInv, SmoothOK, HeldOK, ReachOK, D = 0
  PROVE  /\ MakeDirectory \/ CheckSource \/ Promote \/ UnlinkSource \/ VerifyPublished =>
              UNCHANGED <<held, seen, failed, journal, sess, sver, plan, backup, result, edited, intent>>
         /\ MakeDirectory => pc = "mkdir" /\ pc' = "check" /\ idx' = 1 /\ source' = source
         /\ CheckSource => pc = "check" /\ pc' = "intent" /\ UNCHANGED <<idx, source>>
         /\ Promote \/ UnlinkSource =>
              /\ pc \in {"promote", "unlink"}
              /\ \/ pc' = "unlink" /\ UNCHANGED <<idx, source>>
                 \/ /\ source' = [source EXCEPT ![idx] = "after"]
                    /\ \/ idx < N /\ pc' = "check" /\ idx' = idx + 1
                       \/ ~(idx < N) /\ pc' = "verify" /\ idx' = idx
         /\ VerifyPublished => pc = "verify" /\ pc' = "commit" /\ UNCHANGED <<idx, source>>
<1>1. MakeDirectory => /\ pc = "mkdir" /\ pc' = "check" /\ idx' = 1
                       /\ UNCHANGED <<held, seen, failed, tree, db, files, result, history>>
  <2>1. DirIds = {}
    BY DEF DirIds
  <2>2. missing = {}
    BY <2>1 DEF IndInv, TypeOK, FilesTypeOK
  <2> QED BY <2>1, <2>2, Guards DEF MakeDirectory
<1>2. CheckSource => /\ pc = "check" /\ Goto("intent")
                     /\ UNCHANGED <<tree, db, files, result, history>>
  BY Guards DEF CheckSource
<1>3. Promote => /\ pc = "promote" /\ UNCHANGED <<db, files, result, history>>
                 /\ \/ source' = [source EXCEPT ![idx] = "after"] /\ NextEntry
                    \/ Goto("unlink") /\ UNCHANGED tree
  <2>1. Promote => CanPromote
    BY Guards DEF CanPromote, Promote, IndInv, IdxOK
  <2> QED BY <2>1 DEF Promote
<1>4. UnlinkSource => /\ pc = "unlink" /\ UNCHANGED <<db, files, result, history>>
                      /\ source' = [source EXCEPT ![idx] = "after"] /\ NextEntry
  BY Guards DEF UnlinkSource
<1>5. VerifyPublished => /\ pc = "verify" /\ Goto("commit")
                         /\ UNCHANGED <<tree, db, files, result, history>>
  BY Guards DEF VerifyPublished
<1> QED BY <1>1, <1>2, <1>3, <1>4, <1>5 DEF tree, db, files, history, Goto, NextEntry

\* Without edits and exceptions no step fails.
LEMMA SmoothStep ==
  ASSUME IndInv, UnlinkOK, Alone, Alone', SmoothOK, HeldOK, ReachOK, RestoreOK, [Next]_vars,
         ~TornWrites, D = 0
  PROVE  SmoothOK'
<1> USE ManifestAssumption, BoundAssumption DEF IndInv, TypeOK, tree, db, files, caller, history, Goto,
        Pending, StagePcs, PublishPcs, UndoPcs, RecoverPcs, PreparePcs, IdxOK, JournalOK,
        TreeTypeOK, FilesTypeOK, CallerTypeOK, DbTypeOK, Content, FileState,
        SmoothOK, HeldOK, ReachOK, RestoreOK, StagedOK, PristineOK, IntentOK, AppliedIffCommitted, Conditions, SessionOwned
<1>1. ASSUME NEW version \in {0, sver}, Begin(version) PROVE SmoothOK'
  BY <1>1 DEF Begin
<1>2. CASE RecoverPending
  BY <1>2 DEF RecoverPending
<1>3. CASE Preflight
  BY <1>3 DEF Preflight, Refuse, Return, SessionCas, SessionOwned, Conditions
<1>4. CASE Recheck
  BY <1>4 DEF Recheck, Refuse, Return, SessionCas, SessionOwned, Conditions
<1>5. CASE Reserve
  BY <1>5 DEF Reserve, CanReserve, PrepareApply, Refuse, Return, SessionCas, SessionOwned, Conditions
<1>6. CASE MakeStaging
  BY <1>6 DEF MakeStaging
<1>7. CASE WritePlan
  BY <1>7 DEF WritePlan
<1>8. CASE CopyEntry
  BY <1>8 DEF CopyEntry, Raise
<1>9. CASE Restage
  BY <1>9 DEF Restage, Raise, Conditions
<1>10. CASE Authorize
  BY <1>10 DEF Authorize, TransitionApplying, Raise, SessionCas, SessionOwned
<1>11. CASE MakeDirectory
  BY <1>11, Proceeds
<1>12. CASE WriteReceipt
  BY <1>12 DEF WriteReceipt
<1>13. CASE CheckSource
  BY <1>13, Proceeds
<1>14. CASE WriteIntent
  BY <1>14 DEF WriteIntent
<1>15. CASE Promote
  BY <1>15, Proceeds
<1>16. CASE UnlinkSource
  BY <1>16, Proceeds
<1>17. CASE VerifyPublished
  BY <1>17, Proceeds
<1>18. CASE Commit
  BY <1>18 DEF Commit, TransitionCommitted, Raise, SessionCas, SessionOwned
<1>19. CASE HandleException
  BY <1>19 DEF HandleException
<1>20. CASE Cleanup
  BY <1>20 DEF Cleanup
<1>21. CASE RecoverBegin
  BY <1>21 DEF RecoverBegin, SessionOwned
<1>22. CASE CheckUntouched
  BY <1>22 DEF CheckUntouched, Conditions
<1>23. CASE ReadPlan
  BY <1>23 DEF ReadPlan
<1>24. CASE UndoEntry
  BY <1>24 DEF UndoEntry, PrevEntry
<1>25. CASE UndoAdd
  BY <1>25 DEF UndoAdd, PrevEntry
<1>26. CASE CopyRestore
  BY <1>26 DEF CopyRestore, PrevEntry
<1>27. CASE PutBack
  BY <1>27 DEF PutBack, PrevEntry
<1>28. CASE UndoDirectory
  BY <1>28 DEF UndoDirectory
<1>29. CASE ConfirmRestored
  BY <1>29 DEF ConfirmRestored, Conditions
<1>30. CASE Settle
  BY <1>30 DEF Settle, CanSettle, TransitionRolledBack, SessionCas, SessionOwned
<1>31. CASE RecordFailure
  BY <1>31 DEF RecordFailure, Return
<1>32. CASE Crash
  BY <1>32 DEF Crash, MaybeTorn
<1>33. CASE UNCHANGED vars
  BY <1>33 DEF vars
<1> QED BY <1>1, <1>2, <1>3, <1>4, <1>5, <1>6, <1>7, <1>8, <1>9, <1>10, <1>11, <1>12, <1>13,
     <1>14, <1>15, <1>16, <1>17, <1>18, <1>19, <1>20, <1>21, <1>22, <1>23, <1>24, <1>25,
     <1>26, <1>27, <1>28, <1>29, <1>30, <1>31, <1>32, <1>33, OnlyCrashes DEF ServiceStep

\* The version a caller holds stays that of the row.
LEMMA HeldStep ==
  ASSUME IndInv, UnlinkOK, Alone, Alone', SmoothOK, HeldOK, ReachOK, RestoreOK, [Next]_vars,
         ~TornWrites, D = 0
  PROVE  HeldOK'
<1> USE ManifestAssumption, BoundAssumption DEF IndInv, TypeOK, tree, db, files, caller, history, Goto,
        Pending, StagePcs, PublishPcs, UndoPcs, RecoverPcs, PreparePcs, IdxOK, JournalOK,
        TreeTypeOK, FilesTypeOK, CallerTypeOK, DbTypeOK, Content, FileState,
        SmoothOK, HeldOK
<1>1. ASSUME NEW version \in {0, sver}, Begin(version) PROVE HeldOK'
  BY <1>1 DEF Begin
<1>2. CASE RecoverPending
  BY <1>2 DEF RecoverPending
<1>3. CASE Preflight
  BY <1>3 DEF Preflight, Refuse, Return, SessionCas, SessionOwned, Conditions
<1>4. CASE Recheck
  BY <1>4 DEF Recheck, Refuse, Return, SessionCas, SessionOwned, Conditions
<1>5. CASE Reserve
  BY <1>5 DEF Reserve, CanReserve, PrepareApply, Refuse, Return, SessionCas, SessionOwned, Conditions
<1>6. CASE MakeStaging
  BY <1>6 DEF MakeStaging
<1>7. CASE WritePlan
  BY <1>7 DEF WritePlan
<1>8. CASE CopyEntry
  BY <1>8 DEF CopyEntry, Raise
<1>9. CASE Restage
  BY <1>9 DEF Restage, Raise, Conditions
<1>10. CASE Authorize
  BY <1>10 DEF Authorize, TransitionApplying, Raise, SessionCas, SessionOwned
<1>11. CASE MakeDirectory
  BY <1>11, Proceeds
<1>12. CASE WriteReceipt
  BY <1>12 DEF WriteReceipt
<1>13. CASE CheckSource
  BY <1>13, Proceeds
<1>14. CASE WriteIntent
  BY <1>14 DEF WriteIntent
<1>15. CASE Promote
  BY <1>15, Proceeds
<1>16. CASE UnlinkSource
  BY <1>16, Proceeds
<1>17. CASE VerifyPublished
  BY <1>17, Proceeds
<1>18. CASE Commit
  BY <1>18 DEF Commit, TransitionCommitted, Raise, SessionCas, SessionOwned
<1>19. CASE HandleException
  BY <1>19 DEF HandleException
<1>20. CASE Cleanup
  BY <1>20 DEF Cleanup
<1>21. CASE RecoverBegin
  BY <1>21, Guards DEF RecoverBegin
<1>22. CASE CheckUntouched
  BY <1>22 DEF CheckUntouched, Conditions
<1>23. CASE ReadPlan
  BY <1>23 DEF ReadPlan
<1>24. CASE UndoEntry
  BY <1>24 DEF UndoEntry, PrevEntry
<1>25. CASE UndoAdd
  BY <1>25 DEF UndoAdd, PrevEntry
<1>26. CASE CopyRestore
  BY <1>26 DEF CopyRestore, PrevEntry
<1>27. CASE PutBack
  BY <1>27 DEF PutBack, PrevEntry
<1>28. CASE UndoDirectory
  BY <1>28 DEF UndoDirectory
<1>29. CASE ConfirmRestored
  BY <1>29 DEF ConfirmRestored, Conditions
<1>30. CASE Settle
  BY <1>30 DEF Settle, CanSettle, TransitionRolledBack, SessionCas, SessionOwned
<1>31. CASE RecordFailure
  BY <1>31 DEF RecordFailure, Return
<1>32. CASE Crash
  BY <1>32 DEF Crash, MaybeTorn
<1>33. CASE UNCHANGED vars
  BY <1>33 DEF vars
<1> QED BY <1>1, <1>2, <1>3, <1>4, <1>5, <1>6, <1>7, <1>8, <1>9, <1>10, <1>11, <1>12, <1>13,
     <1>14, <1>15, <1>16, <1>17, <1>18, <1>19, <1>20, <1>21, <1>22, <1>23, <1>24, <1>25,
     <1>26, <1>27, <1>28, <1>29, <1>30, <1>31, <1>32, <1>33, OnlyCrashes DEF ServiceStep

\* Publication goes on in manifest order.
LEMMA ReachStep ==
  ASSUME IndInv, UnlinkOK, Alone, Alone', SmoothOK, HeldOK, ReachOK, RestoreOK, [Next]_vars,
         ~TornWrites, D = 0
  PROVE  ReachOK'
<1> USE ManifestAssumption, BoundAssumption DEF IndInv, TypeOK, tree, db, files, caller, history, Goto,
        Pending, StagePcs, PublishPcs, UndoPcs, RecoverPcs, PreparePcs, IdxOK, JournalOK,
        TreeTypeOK, FilesTypeOK, CallerTypeOK, DbTypeOK, Content, FileState,
        SmoothOK, ReachOK, UnlinkOK, Conditions, Entries
<1>1. ASSUME NEW version \in {0, sver}, Begin(version) PROVE ReachOK'
  BY <1>1 DEF Begin
<1>2. CASE RecoverPending
  BY <1>2 DEF RecoverPending
<1>3. CASE Preflight
  BY <1>3 DEF Preflight, Refuse, Return, SessionCas, SessionOwned, Conditions
<1>4. CASE Recheck
  BY <1>4 DEF Recheck, Refuse, Return, SessionCas, SessionOwned, Conditions
<1>5. CASE Reserve
  BY <1>5 DEF Reserve, CanReserve, PrepareApply, Refuse, Return, SessionCas, SessionOwned, Conditions
<1>6. CASE MakeStaging
  BY <1>6 DEF MakeStaging
<1>7. CASE WritePlan
  BY <1>7 DEF WritePlan
<1>8. CASE CopyEntry
  BY <1>8 DEF CopyEntry, Raise
<1>9. CASE Restage
  BY <1>9 DEF Restage, Raise, Conditions
<1>10. CASE Authorize
  BY <1>10 DEF Authorize, TransitionApplying, Raise, SessionCas, SessionOwned
<1>11. CASE MakeDirectory
  BY <1>11, Proceeds
<1>12. CASE WriteReceipt
  BY <1>12 DEF WriteReceipt
<1>13. CASE CheckSource
  BY <1>13, Proceeds
<1>14. CASE WriteIntent
  BY <1>14 DEF WriteIntent
<1>15. CASE Promote
  BY <1>15, Proceeds
<1>16. CASE UnlinkSource
  BY <1>16, Proceeds
<1>17. CASE VerifyPublished
  BY <1>17, Proceeds
<1>18. CASE Commit
  BY <1>18 DEF Commit, TransitionCommitted, Raise, SessionCas, SessionOwned
<1>19. CASE HandleException
  BY <1>19 DEF HandleException
<1>20. CASE Cleanup
  BY <1>20 DEF Cleanup
<1>21. CASE RecoverBegin
  BY <1>21 DEF RecoverBegin, SessionOwned
<1>22. CASE CheckUntouched
  BY <1>22 DEF CheckUntouched, Conditions
<1>23. CASE ReadPlan
  BY <1>23 DEF ReadPlan
<1>24. CASE UndoEntry
  BY <1>24 DEF UndoEntry, PrevEntry
<1>25. CASE UndoAdd
  BY <1>25 DEF UndoAdd, PrevEntry
<1>26. CASE CopyRestore
  BY <1>26 DEF CopyRestore, PrevEntry
<1>27. CASE PutBack
  BY <1>27 DEF PutBack, PrevEntry
<1>28. CASE UndoDirectory
  BY <1>28 DEF UndoDirectory
<1>29. CASE ConfirmRestored
  BY <1>29 DEF ConfirmRestored, Conditions
<1>30. CASE Settle
  BY <1>30 DEF Settle, CanSettle, TransitionRolledBack, SessionCas, SessionOwned
<1>31. CASE RecordFailure
  BY <1>31 DEF RecordFailure, Return
<1>32. CASE Crash
  BY <1>32 DEF Crash, MaybeTorn
<1>33. CASE UNCHANGED vars
  BY <1>33 DEF vars
<1> QED BY <1>1, <1>2, <1>3, <1>4, <1>5, <1>6, <1>7, <1>8, <1>9, <1>10, <1>11, <1>12, <1>13,
     <1>14, <1>15, <1>16, <1>17, <1>18, <1>19, <1>20, <1>21, <1>22, <1>23, <1>24, <1>25,
     <1>26, <1>27, <1>28, <1>29, <1>30, <1>31, <1>32, <1>33, OnlyCrashes DEF ServiceStep

\* Rollback goes back in the same order.
LEMMA RestoreStep ==
  ASSUME IndInv, UnlinkOK, Alone, Alone', SmoothOK, HeldOK, ReachOK, RestoreOK, [Next]_vars,
         ~TornWrites, D = 0
  PROVE  RestoreOK'
<1> USE ManifestAssumption, BoundAssumption DEF IndInv, TypeOK, tree, db, files, caller, history, Goto,
        Pending, StagePcs, PublishPcs, UndoPcs, RecoverPcs, PreparePcs, IdxOK, JournalOK,
        TreeTypeOK, FilesTypeOK, CallerTypeOK, DbTypeOK, Content, FileState,
        SmoothOK, RestoreOK, PristineOK, Conditions, Entries
<1>1. ASSUME NEW version \in {0, sver}, Begin(version) PROVE RestoreOK'
  BY <1>1 DEF Begin
<1>2. CASE RecoverPending
  BY <1>2 DEF RecoverPending
<1>3. CASE Preflight
  BY <1>3 DEF Preflight, Refuse, Return, SessionCas, SessionOwned, Conditions
<1>4. CASE Recheck
  BY <1>4 DEF Recheck, Refuse, Return, SessionCas, SessionOwned, Conditions
<1>5. CASE Reserve
  BY <1>5 DEF Reserve, CanReserve, PrepareApply, Refuse, Return, SessionCas, SessionOwned, Conditions
<1>6. CASE MakeStaging
  BY <1>6 DEF MakeStaging
<1>7. CASE WritePlan
  BY <1>7 DEF WritePlan
<1>8. CASE CopyEntry
  BY <1>8 DEF CopyEntry, Raise
<1>9. CASE Restage
  BY <1>9 DEF Restage, Raise, Conditions
<1>10. CASE Authorize
  BY <1>10 DEF Authorize, TransitionApplying, Raise, SessionCas, SessionOwned
<1>11. CASE MakeDirectory
  BY <1>11 DEF MakeDirectory, Raise
<1>12. CASE WriteReceipt
  BY <1>12 DEF WriteReceipt
<1>13. CASE CheckSource
  BY <1>13 DEF CheckSource, Raise
<1>14. CASE WriteIntent
  BY <1>14 DEF WriteIntent
<1>15. CASE Promote
  BY <1>15 DEF Promote, CanPromote, NextEntry, Raise
<1>16. CASE UnlinkSource
  BY <1>16 DEF UnlinkSource, NextEntry, Raise
<1>17. CASE VerifyPublished
  BY <1>17 DEF VerifyPublished, Conditions, Raise
<1>18. CASE Commit
  BY <1>18 DEF Commit, TransitionCommitted, Raise, SessionCas, SessionOwned
<1>19. CASE HandleException
  BY <1>19 DEF HandleException
<1>20. CASE Cleanup
  BY <1>20 DEF Cleanup
<1>21. CASE RecoverBegin
  BY <1>21 DEF RecoverBegin, SessionOwned
<1>22. CASE CheckUntouched
  BY <1>22 DEF CheckUntouched, Conditions
<1>23. CASE ReadPlan
  BY <1>23, Guards DEF ReadPlan
<1>24. CASE UndoEntry
  <2>1. idx \in Entries /\ journal \in Pending /\ source[idx] \in Content
    BY <1>24 DEF UndoEntry
  <2>2. source[idx] # "before" => source[idx] = "after"
    BY <2>1 DEF SmoothOK
  <2>3. source[idx] = "after" => intent[idx] = "ok"
    BY <2>1 DEF SmoothOK, IntentOK
  <2>4. intent[idx] # "torn"
    BY <2>1 DEF SmoothOK
  <2>5. /\ pc = "undo" /\ source' = source
        /\ \/ source[idx] = "before" /\ PrevEntry(FALSE)
           \/ /\ source[idx] = "after" /\ UNCHANGED <<idx, held, seen, failed>>
              /\ pc' = IF Op[idx] = "ADD" THEN "undoadd" ELSE "restore"
    BY <1>24, <2>2, <2>3, <2>4 DEF UndoEntry
  <2> QED BY <2>1, <2>5 DEF PrevEntry
<1>25. CASE UndoAdd
  BY <1>25 DEF UndoAdd, PrevEntry
<1>26. CASE CopyRestore
  BY <1>26, Guards DEF CopyRestore, PrevEntry
<1>27. CASE PutBack
  BY <1>27 DEF PutBack, PrevEntry
<1>28. CASE UndoDirectory
  BY <1>28 DEF UndoDirectory
<1>29. CASE ConfirmRestored
  BY <1>29 DEF ConfirmRestored, Conditions
<1>30. CASE Settle
  BY <1>30 DEF Settle, CanSettle, TransitionRolledBack, SessionCas, SessionOwned
<1>31. CASE RecordFailure
  BY <1>31 DEF RecordFailure, Return
<1>32. CASE Crash
  BY <1>32 DEF Crash, MaybeTorn
<1>33. CASE UNCHANGED vars
  BY <1>33 DEF vars
<1> QED BY <1>1, <1>2, <1>3, <1>4, <1>5, <1>6, <1>7, <1>8, <1>9, <1>10, <1>11, <1>12, <1>13,
     <1>14, <1>15, <1>16, <1>17, <1>18, <1>19, <1>20, <1>21, <1>22, <1>23, <1>24, <1>25,
     <1>26, <1>27, <1>28, <1>29, <1>30, <1>31, <1>32, <1>33, OnlyCrashes DEF ServiceStep

LEMMA CrashStep ==
  ASSUME IndInv, UnlinkOK, CrashInv, [Next]_vars, ~TornWrites, D = 0
  PROVE  CrashInv'
<1> SUFFICES ASSUME Alone' PROVE (SmoothOK /\ HeldOK /\ ReachOK /\ RestoreOK)'
  BY DEF CrashInv
<1>1. Alone
  BY OnlyCrashes
<1> QED BY <1>1, SmoothStep, HeldStep, ReachStep, RestoreStep DEF CrashInv

\* Crashes alone never defeat recovery, however often they come and wherever, in the recovery
\* of an earlier crash too: a restart ends in ROLLED_BACK, and no project stays reserved. It
\* takes a manifest that creates no directory, and files that are written whole: a partial
\* plan.json and a directory without its receipt are what recovery does not get past.
THEOREM CrashesAreRecovered ==
  ASSUME ~TornWrites, D = 0
  PROVE  Spec => []CrashesAloneAreRecovered
<1>1. Init => UnlinkOK /\ CrashInv
  BY BoundAssumption DEF Init, UnlinkOK, CrashInv, SmoothOK, HeldOK, ReachOK, RestoreOK,
     StagePcs, PublishPcs, RecoverPcs, UndoPcs
<1>2. IndInv /\ UnlinkOK /\ CrashInv /\ [Next]_vars => UnlinkOK' /\ CrashInv'
  BY UnlinkStep, CrashStep
<1>3. CrashInv => CrashesAloneAreRecovered
  BY DEF CrashInv, Alone, SmoothOK, CrashesAloneAreRecovered
<1> QED BY <1>1, <1>2, <1>3, InductiveInvariant, PTL DEF Spec
=============================================================================
