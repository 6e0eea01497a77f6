-------------------------- MODULE ApplyTransaction --------------------------
(***************************************************************************)
(* ApplyService: one stored patch manifest published into the user's       *)
(* source tree, with a durable SQLite journal, write-ahead intent files,   *)
(* backups, verified rollback and restart recovery.                        *)
(*                                                                         *)
(* The project lock admits one caller at a time, so the volatile state of  *)
(* the one caller inside apply() or recover_pending() is pc, idx, held,    *)
(* seen and failed; pc = "idle" means that nobody holds the lock.          *)
(* The user's editor, another process that discards the session, I/O       *)
(* errors and crashes interleave with every step of that caller.           *)
(*                                                                         *)
(* File content is one of "before" (what the manifest expects), "after"    *)
(* (what it publishes) and "foreign". For an ADD "before" is the absent    *)
(* file, for a DELETE "after" is.                                          *)
(***************************************************************************)
EXTENDS Integers

CONSTANTS
  N,            \* the manifest's entries are 1..N, in manifest order
  Op,           \* the operation of each entry
  D,            \* the parent directories that the manifest may have to create
  Parent,       \* the directory of 1..D an entry lives in, 0 for none of them
  MaxApplies,   \* bound: calls of apply()
  MaxCrashes,   \* bound: process crashes
  MaxFaults,    \* bound: exceptions (I/O errors, cancellation, lost replies)
  MaxEdits,     \* bound: edits of the source tree by the user
  MaxDiscards,  \* bound: sessions discarded by another caller
  TornWrites    \* may a failing write leave a partial file behind?

Entries == 1..N
DirIds  == 1..D

ASSUME ManifestAssumption ==
  /\ N \in Nat \ {0} /\ D \in Nat
  /\ Op \in [Entries -> {"ADD", "MODIFY", "DELETE"}]
  /\ Parent \in [Entries -> 0..D]
  /\ \A e \in Entries : Parent[e] # 0 => Op[e] = "ADD"
  /\ TornWrites \in BOOLEAN

ASSUME BoundAssumption ==
  /\ MaxApplies \in Nat /\ MaxCrashes \in Nat /\ MaxFaults \in Nat
  /\ MaxEdits \in Nat /\ MaxDiscards \in Nat

VARIABLES
  source, dir,                    \* the user's project tree
  journal, sess, sver,            \* SQLite: newest apply journal, owning session
  plan, backup, intent, receipt,  \* the files of the transaction's backup folder
  missing,                        \* directories plan.json says must be created
  pc, idx, held, seen, failed,    \* the caller that holds the project lock
  result,                         \* what the last finished call reported
  edited,                         \* history: entries the user changed since the reservation
  authorized,                     \* history: the newest journal has reached APPLYING
  calm,                           \* history: nothing disturbed the current call
  used                            \* how much of each bound is spent

tree     == <<source, dir>>
db       == <<journal, sess, sver>>
files    == <<plan, backup, intent, receipt, missing>>
caller   == <<pc, idx, held, seen, failed>>
history  == <<edited, authorized, calm>>
vars     == <<tree, db, files, caller, result, history, used>>

Pending   == {"PREPARING", "APPLYING", "RECOVERY_FAILED"}
Content   == {"before", "after", "foreign"}
FileState == {"none", "torn", "ok"}

PreparePcs == {"preflight", "recheck", "reserve"}
StagePcs   == {"stage", "plan", "copy", "restage", "authorize"}
PublishPcs == {"mkdir", "receipt", "check", "intent", "promote", "unlink",
               "verify", "commit"}
UndoPcs    == {"undo", "undoadd", "restore", "putback", "undodir", "confirm"}
RecoverPcs == {"recover", "precheck", "readplan", "settle", "recfail"} \cup UndoPcs
Pcs        == {"idle", "handle", "cleanup"} \cup PreparePcs \cup StagePcs
                 \cup PublishPcs \cup RecoverPcs

TreeTypeOK ==
  /\ source \in [Entries -> Content]
  /\ dir \in [DirIds -> {"absent", "ours", "foreign"}]
DbTypeOK ==
  /\ journal \in Pending \cup {"none", "COMMITTED", "ROLLED_BACK"}
  /\ sess \in {"DIRTY_VERIFIED", "APPLIED", "DISCARDED"}
  /\ sver \in Nat
FilesTypeOK ==
  /\ plan \in FileState \cup {"nodir"}
  /\ backup \in [Entries -> FileState]
  /\ intent \in [Entries -> FileState]
  /\ receipt \in [DirIds -> FileState]
  /\ missing \in SUBSET DirIds
CallerTypeOK ==
  /\ pc \in Pcs /\ idx \in Nat /\ held \in Nat /\ seen \in Pending
  /\ result \in {"none", "COMMITTED", "CONFLICT", "ROLLED_BACK", "RECOVERY_FAILED"}
FlagsTypeOK == failed \in BOOLEAN /\ authorized \in BOOLEAN /\ calm \in BOOLEAN
UsedTypeOK ==
  /\ edited \in SUBSET Entries
  /\ used \in [applies : 0..MaxApplies, crashes : 0..MaxCrashes,
               faults : 0..MaxFaults, edits : 0..MaxEdits, discards : 0..MaxDiscards]

\* Every variable has its type.
TypeOK == TreeTypeOK /\ DbTypeOK /\ FilesTypeOK /\ CallerTypeOK /\ FlagsTypeOK /\ UsedTypeOK

Init ==
  /\ source = [e \in Entries |-> "before"] /\ dir = [d \in DirIds |-> "absent"]
  /\ journal = "none" /\ sess = "DIRTY_VERIFIED" /\ sver = 1
  /\ plan = "nodir" /\ missing = {}
  /\ backup = [e \in Entries |-> "none"] /\ intent = [e \in Entries |-> "none"]
  /\ receipt = [d \in DirIds |-> "none"]
  /\ pc = "idle" /\ idx = 0 /\ held = 0 /\ seen = "PREPARING" /\ failed = FALSE
  /\ result = "none"
  /\ edited = {} /\ authorized = FALSE /\ calm = TRUE
  /\ used = [applies |-> 0, crashes |-> 0, faults |-> 0, edits |-> 0, discards |-> 0]

(***************************************************************************)
(* Guards and moves shared by the steps                                    *)
(***************************************************************************)
\* _conditions(source, manifest, after): every entry has these bytes.
Conditions(content) == \A e \in Entries : source[e] = content

\* _session: the session still owns the manifest, and has this version.
SessionOwned == sess = "DIRTY_VERIFIED"
SessionCas   == SessionOwned /\ sver = held

Goto(label) == pc' = label /\ UNCHANGED <<idx, held, seen, failed>>
\* An entry's action succeeded: the next entry, or the final verification.
NextEntry ==
  /\ IF idx < N THEN pc' = "check" /\ idx' = idx + 1
                ELSE pc' = "verify" /\ idx' = idx
  /\ UNCHANGED <<held, seen, failed>>
\* _rollback goes through the entries, then the directories, in reverse.
PrevEntry(bad) ==
  /\ IF idx > 1 THEN pc' = "undo" /\ idx' = idx - 1
                ELSE pc' = "undodir" /\ idx' = D
  /\ failed' = (failed \/ bad)
  /\ UNCHANGED <<held, seen>>

Return(outcome) == Goto("idle") /\ result' = outcome

(***************************************************************************)
(* apply(): preflight and reservation                                      *)
(***************************************************************************)
\* The caller passes the session version it remembers: current, or stale (0).
Begin(version) ==
  /\ pc = "idle" /\ used.applies < MaxApplies
  /\ pc' = "preflight" /\ held' = version /\ UNCHANGED <<idx, seen, failed>>
  /\ result' = "none" /\ calm' = TRUE
  /\ used' = [used EXCEPT !.applies = @ + 1]
  /\ UNCHANGED <<tree, db, files, edited, authorized>>

\* Without a reservation a refusal changes nothing: CONFLICT.
Refuse ==
  /\ Return("CONFLICT")
  /\ UNCHANGED <<tree, db, files, history, used>>

Preflight ==
  /\ pc = "preflight"
  /\ \/ /\ SessionCas /\ journal \notin Pending /\ Conditions("before")
        /\ missing' = {d \in DirIds : dir[d] = "absent"}
        /\ Goto("recheck")
        /\ UNCHANGED <<tree, db, plan, backup, intent, receipt, result, history, used>>
     \/ /\ ~(SessionCas /\ journal \notin Pending /\ Conditions("before"))
        /\ Refuse

Recheck ==
  /\ pc = "recheck"
  /\ \/ /\ SessionCas /\ Conditions("before")
        /\ Goto("reserve")
        /\ UNCHANGED <<tree, db, files, result, history, used>>
     \/ /\ ~(SessionCas /\ Conditions("before"))
        /\ Refuse

\* prepare_apply: session CAS and journal insert in one transaction; the new
\* journal has fresh staging and backup identifiers, so no file of it exists.
PrepareApply ==
  /\ journal' = "PREPARING" /\ sver' = sver + 1 /\ UNCHANGED sess
  /\ held' = sver + 1
  /\ plan' = "nodir" /\ backup' = [e \in Entries |-> "none"]
  /\ intent' = [e \in Entries |-> "none"]
  /\ receipt' = [d \in DirIds |-> "none"] /\ UNCHANGED missing
  /\ edited' = {e \in Entries : source[e] # "before"} /\ authorized' = FALSE

CanReserve == SessionCas /\ journal \notin Pending

Reserve ==
  /\ pc = "reserve"
  /\ \/ /\ CanReserve
        /\ PrepareApply
        /\ pc' = "stage" /\ UNCHANGED <<idx, seen, failed>>
        /\ UNCHANGED <<tree, result, calm, used>>
     \/ ~CanReserve /\ Refuse

(***************************************************************************)
(* apply(): staging, under a PREPARING journal                             *)
(***************************************************************************)
Raise == Goto("handle") /\ UNCHANGED <<tree, db, files, result, history, used>>

MakeStaging ==
  /\ pc = "stage" /\ Goto("plan") /\ plan' = "none"
  /\ UNCHANGED <<tree, db, backup, intent, receipt, missing, result, history, used>>

WritePlan ==
  /\ pc = "plan" /\ plan' = "ok"
  /\ pc' = "copy" /\ idx' = 1 /\ UNCHANGED <<held, seen, failed>>
  /\ UNCHANGED <<tree, db, backup, intent, receipt, missing, result, history, used>>

\* Mutant: only modified files are backed up.
CopyEntry_NoBackupOfDeleted ==
  /\ pc = "copy"
  /\ \/ /\ Op[idx] = "ADD" \/ source[idx] = "before"
        /\ backup' = [backup EXCEPT ![idx] = IF Op[idx] = "MODIFY" THEN "ok" ELSE "none"]
        /\ IF idx < N THEN pc' = "copy" /\ idx' = idx + 1
                      ELSE pc' = "restage" /\ idx' = idx
        /\ UNCHANGED <<held, seen, failed, tree, db, plan, intent, receipt,
                       missing, result, history, used>>
     \/ Op[idx] # "ADD" /\ source[idx] # "before" /\ Raise

\* One entry: its bytes in the source become the backup (nothing for an ADD),
\* its bytes in the workspace are staged. Copying the wrong bytes raises.
CopyEntry ==
  /\ pc = "copy"
  /\ \/ /\ Op[idx] = "ADD" \/ source[idx] = "before"
        /\ backup' = [backup EXCEPT ![idx] = IF Op[idx] = "ADD" THEN "none" ELSE "ok"]
        /\ IF idx < N THEN pc' = "copy" /\ idx' = idx + 1
                      ELSE pc' = "restage" /\ idx' = idx
        /\ UNCHANGED <<held, seen, failed, tree, db, plan, intent, receipt,
                       missing, result, history, used>>
     \/ /\ Op[idx] # "ADD" /\ source[idx] # "before"
        /\ backup' = [backup EXCEPT ![idx] = "torn"]
        /\ Goto("handle")
        /\ UNCHANGED <<tree, db, plan, intent, receipt, missing, result, history, used>>

\* Source, workspace and artifacts are verified again after staging.
Restage ==
  /\ pc = "restage"
  /\ \/ /\ Conditions("before") /\ Goto("authorize")
        /\ UNCHANGED <<tree, db, files, result, history, used>>
     \/ ~Conditions("before") /\ Raise

\* Mutant: publication starts although the journal row was not moved.
TransitionApplying_StaysPreparing ==
  /\ sver' = sver + 1 /\ UNCHANGED <<journal, sess, authorized, edited, calm>>

\* transition_apply PREPARING -> APPLYING with the session CAS.
TransitionApplying ==
  /\ journal' = "APPLYING" /\ sver' = sver + 1 /\ UNCHANGED sess
  /\ authorized' = TRUE /\ UNCHANGED <<edited, calm>>

Authorize ==
  /\ pc = "authorize"
  /\ \/ /\ SessionCas /\ journal = "PREPARING"
        /\ TransitionApplying
        /\ pc' = "mkdir" /\ idx' = 1 /\ held' = sver + 1 /\ UNCHANGED <<seen, failed>>
        /\ UNCHANGED <<tree, files, result, used>>
     \/ ~(SessionCas /\ journal = "PREPARING") /\ Raise

(***************************************************************************)
(* apply(): publication, under an APPLYING journal                         *)
(***************************************************************************)
MakeDirectory ==
  /\ pc = "mkdir"
  /\ \/ /\ idx > D
        /\ pc' = "check" /\ idx' = 1 /\ UNCHANGED <<held, seen, failed>>
        /\ UNCHANGED <<tree, db, files, result, history, used>>
     \/ /\ idx \in DirIds \ missing
        /\ pc' = "mkdir" /\ idx' = idx + 1 /\ UNCHANGED <<held, seen, failed>>
        /\ UNCHANGED <<tree, db, files, result, history, used>>
     \/ /\ idx \in missing /\ dir[idx] = "absent"
        /\ dir' = [dir EXCEPT ![idx] = "ours"] /\ UNCHANGED source
        /\ Goto("receipt")
        /\ UNCHANGED <<db, files, result, history, used>>
     \/ idx \in missing /\ dir[idx] # "absent" /\ Raise

\* d<n>.created: the identity of the directory just made.
WriteReceipt ==
  /\ pc = "receipt"
  /\ receipt' = [receipt EXCEPT ![idx] = "ok"]
  /\ pc' = "mkdir" /\ idx' = idx + 1 /\ UNCHANGED <<held, seen, failed>>
  /\ UNCHANGED <<tree, db, plan, backup, intent, missing, result, history, used>>

\* Mutant: the write-ahead intent is skipped.
CheckSource_NoIntent ==
  /\ pc = "check"
  /\ \/ /\ source[idx] = "before" /\ Goto("promote")
        /\ UNCHANGED <<tree, db, files, result, history, used>>
     \/ source[idx] # "before" /\ Raise

CheckSource ==
  /\ pc = "check"
  /\ \/ /\ source[idx] = "before" /\ Goto("intent")
        /\ UNCHANGED <<tree, db, files, result, history, used>>
     \/ source[idx] # "before" /\ Raise

WriteIntent ==
  /\ pc = "intent"
  /\ intent' = [intent EXCEPT ![idx] = "ok"]
  /\ Goto("promote")
  /\ UNCHANGED <<tree, db, plan, backup, receipt, missing, result, history, used>>

\* Mutant: an ADD is renamed over its name instead of linked.
CanPromote_Clobbers ==
  Op[idx] = "DELETE" => source[idx] = "before"

\* replace_from renames over whatever is there; with absent=True (ADD) it
\* links, which fails if the name is taken or its directory is gone.
\* unlink (DELETE) reads the bytes once more before it removes the name.
CanPromote ==
  /\ Op[idx] # "MODIFY" => source[idx] = "before"
  /\ Op[idx] = "ADD" /\ Parent[idx] # 0 => dir[Parent[idx]] # "absent"

Promote ==
  /\ pc = "promote"
  /\ \/ /\ CanPromote /\ Op[idx] # "DELETE"
        /\ source' = [source EXCEPT ![idx] = "after"] /\ UNCHANGED dir
        /\ NextEntry
        /\ UNCHANGED <<db, files, result, history, used>>
     \/ /\ CanPromote /\ Op[idx] = "DELETE" /\ Goto("unlink")
        /\ UNCHANGED <<tree, db, files, result, history, used>>
     \/ ~CanPromote /\ Raise

\* The unlink itself: bytes written since the last read are lost with the name.
UnlinkSource ==
  /\ pc = "unlink"
  /\ \/ /\ source[idx] # "after"
        /\ source' = [source EXCEPT ![idx] = "after"] /\ UNCHANGED dir
        /\ NextEntry
        /\ UNCHANGED <<db, files, result, history, used>>
     \/ source[idx] = "after" /\ Raise

VerifyPublished ==
  /\ pc = "verify"
  /\ \/ /\ Conditions("after") /\ Goto("commit")
        /\ UNCHANGED <<tree, db, files, result, history, used>>
     \/ ~Conditions("after") /\ Raise

\* Mutant: the session is left to a second transaction.
TransitionCommitted_JournalOnly ==
  /\ journal' = "COMMITTED" /\ sver' = sver + 1 /\ UNCHANGED sess

\* transition_apply APPLYING -> COMMITTED moves the session to APPLIED too.
TransitionCommitted ==
  /\ journal' = "COMMITTED" /\ sess' = "APPLIED" /\ sver' = sver + 1

Commit ==
  /\ pc = "commit"
  /\ \/ /\ SessionCas /\ journal = "APPLYING"
        /\ TransitionCommitted
        /\ Goto("cleanup") /\ result' = "COMMITTED"
        /\ UNCHANGED <<tree, files, history, used>>
     \/ ~(SessionCas /\ journal = "APPLYING") /\ Raise

\* The except branch of _apply reads the durable state: a commit whose reply
\* was lost is still a commit, anything pending is recovered. Nobody else can
\* settle a journal while this caller holds the lock, so nothing else occurs.
HandleException ==
  /\ pc = "handle"
  /\ \/ /\ journal \in Pending
        /\ pc' = "recover" /\ seen' = journal /\ UNCHANGED <<idx, held, failed>>
        /\ UNCHANGED <<tree, db, files, result, history, used>>
     \/ /\ journal = "COMMITTED"
        /\ Goto("cleanup") /\ result' = "COMMITTED"
        /\ UNCHANGED <<tree, db, files, history, used>>

Cleanup ==
  /\ pc = "cleanup"
  /\ \/ /\ plan' = "nodir" /\ backup' = [e \in Entries |-> "none"]
        /\ intent' = [e \in Entries |-> "none"] /\ receipt' = [d \in DirIds |-> "none"]
        /\ UNCHANGED missing
     \/ UNCHANGED files
  /\ Goto("idle")
  /\ UNCHANGED <<tree, db, result, history, used>>

(***************************************************************************)
(* _recover(): from the except branch, or from recover_pending() at start  *)
(***************************************************************************)
RecoverPending ==
  /\ pc = "idle" /\ journal \in Pending
  /\ pc' = "recover" /\ seen' = journal /\ UNCHANGED <<idx, held, failed>>
  /\ result' = "none" /\ calm' = TRUE
  /\ UNCHANGED <<tree, db, files, edited, authorized, used>>

\* Mutant: a PREPARING journal is rolled back like any other.
RecoverBegin_AlwaysNeedsPlan ==
  /\ pc = "recover"
  /\ IF ~SessionOwned THEN pc' = "recfail" /\ UNCHANGED held
     ELSE held' = sver /\ pc' = "readplan"
  /\ failed' = FALSE /\ UNCHANGED <<idx, seen>>
  /\ UNCHANGED <<tree, db, files, result, history, used>>

RecoverBegin ==
  /\ pc = "recover"
  /\ IF ~SessionOwned THEN pc' = "recfail" /\ UNCHANGED held
     ELSE /\ held' = sver
          /\ pc' = IF seen = "PREPARING" THEN "precheck" ELSE "readplan"
  /\ failed' = FALSE /\ UNCHANGED <<idx, seen>>
  /\ UNCHANGED <<tree, db, files, result, history, used>>

\* Mutant: recovery of a PREPARING journal insists on a plan.
CheckUntouched_NeedsPlan ==
  /\ pc = "precheck"
  /\ IF Conditions("before") /\ plan = "ok" THEN Goto("settle") ELSE Goto("recfail")
  /\ UNCHANGED <<tree, db, files, result, history, used>>

\* A PREPARING journal only has to show that the source is untouched, but a
\* plan.json that exists must be whole.
CheckUntouched ==
  /\ pc = "precheck"
  /\ IF Conditions("before") /\ plan # "torn" THEN Goto("settle") ELSE Goto("recfail")
  /\ UNCHANGED <<tree, db, files, result, history, used>>

\* Any other journal needs the backup folder and its plan.
ReadPlan ==
  /\ pc = "readplan"
  /\ IF plan = "ok" THEN pc' = "undo" /\ idx' = N ELSE pc' = "recfail" /\ idx' = idx
  /\ UNCHANGED <<held, seen, failed>>
  /\ UNCHANGED <<tree, db, files, result, history, used>>

\* One entry of _rollback. It continues past an entry it cannot restore.
UndoEntry ==
  /\ pc = "undo"
  /\ \/ intent[idx] # "torn" /\ source[idx] = "before" /\ PrevEntry(FALSE)
     \/ /\ \/ intent[idx] = "torn"
           \/ source[idx] # "before" /\ (intent[idx] = "none" \/ source[idx] # "after")
        /\ PrevEntry(TRUE)
     \/ /\ intent[idx] = "ok" /\ source[idx] = "after"
        /\ Goto(IF Op[idx] = "ADD" THEN "undoadd" ELSE "restore")
  /\ UNCHANGED <<tree, db, files, result, history, used>>

\* unlink of a published ADD, after its bytes were read.
UndoAdd ==
  /\ pc = "undoadd"
  /\ source' = [source EXCEPT ![idx] = "before"] /\ UNCHANGED dir
  /\ PrevEntry(source[idx] = "before")
  /\ UNCHANGED <<db, files, result, history, used>>

\* <n>.before is copied to a disposable <n>.restore; a partial one left by an
\* earlier recovery is dropped and copied again, so only the copy counts.
CopyRestore ==
  /\ pc = "restore"
  /\ IF backup[idx] = "ok" THEN Goto("putback") ELSE PrevEntry(TRUE)
  /\ UNCHANGED <<tree, db, files, result, history, used>>

\* Renaming over a MODIFY replaces whatever is there; putting a DELETE back
\* links, which fails if the name is taken.
PutBack ==
  /\ pc = "putback"
  /\ LET free == Op[idx] = "MODIFY" \/ source[idx] = "after"
     IN /\ source' = IF free THEN [source EXCEPT ![idx] = "before"] ELSE source
        /\ PrevEntry(~free)
  /\ UNCHANGED dir
  /\ UNCHANGED <<db, files, result, history, used>>

\* rmdir of a directory this transaction made, which must hold nothing.
Owned(d) == receipt[d] = "ok" /\ dir[d] = "ours"
Empty(d) == \A e \in Entries : Parent[e] = d => source[e] = "before"

UndoDirectory ==
  /\ pc = "undodir"
  /\ \/ /\ idx = 0 /\ Goto("confirm") /\ UNCHANGED tree
     \/ /\ idx > 0
        /\ LET skip   == idx \notin missing \/ dir[idx] = "absent"
               remove == ~skip /\ Owned(idx) /\ Empty(idx)
           IN /\ dir' = IF remove THEN [dir EXCEPT ![idx] = "absent"] ELSE dir
              /\ failed' = (failed \/ ~(skip \/ remove))
        /\ pc' = "undodir" /\ idx' = idx - 1
        /\ UNCHANGED <<source, held, seen>>
  /\ UNCHANGED <<db, files, result, history, used>>

\* Mutant: the failures collected by the rollback are forgotten.
ConfirmRestored_ForgetsFailures ==
  /\ pc = "confirm" /\ Goto("settle")
  /\ UNCHANGED <<tree, db, files, result, history, used>>

ConfirmRestored ==
  /\ pc = "confirm"
  /\ IF Conditions("before") /\ ~failed THEN Goto("settle") ELSE Goto("recfail")
  /\ UNCHANGED <<tree, db, files, result, history, used>>

\* transition_apply seen -> ROLLED_BACK; the session keeps its manifest.
CanSettle == SessionCas /\ journal = seen

\* Mutant: the journal's target state is written to the session as well.
TransitionRolledBack_SessionToo ==
  journal' = "ROLLED_BACK" /\ sver' = sver + 1 /\ sess' = "ROLLED_BACK"

TransitionRolledBack == journal' = "ROLLED_BACK" /\ sver' = sver + 1 /\ UNCHANGED sess

Settle ==
  /\ pc = "settle"
  /\ \/ /\ CanSettle /\ TransitionRolledBack
        /\ Goto("cleanup") /\ result' = "ROLLED_BACK"
        /\ UNCHANGED <<tree, files, history, used>>
     \/ /\ ~CanSettle /\ Goto("recfail")
        /\ UNCHANGED <<tree, db, files, result, history, used>>

\* Mutant: the failure is recorded without reading the journal first.
RecordFailure_Blindly ==
  /\ pc = "recfail"
  /\ journal' = "RECOVERY_FAILED" /\ UNCHANGED <<sess, sver>>
  /\ Return("RECOVERY_FAILED")
  /\ UNCHANGED <<tree, files, history, used>>

\* Mutant: a recovery that failed is reported as rolled back.
RecordFailure_ReportsSuccess ==
  /\ pc = "recfail"
  /\ IF journal = "ROLLED_BACK" THEN UNCHANGED db
     ELSE journal' = "RECOVERY_FAILED" /\ UNCHANGED <<sess, sver>>
  /\ Return("ROLLED_BACK")
  /\ UNCHANGED <<tree, files, history, used>>

\* The except branch of _recover: a lost reply to ROLLED_BACK is a success,
\* anything else keeps the project reserved as RECOVERY_FAILED.
RecordFailure ==
  /\ pc = "recfail"
  /\ \/ /\ journal = "ROLLED_BACK"
        /\ Goto("cleanup") /\ result' = "ROLLED_BACK" /\ UNCHANGED db
     \/ /\ journal # "ROLLED_BACK"
        /\ journal' = IF journal \in Pending THEN "RECOVERY_FAILED" ELSE journal
        /\ UNCHANGED <<sess, sver>>
        /\ Return("RECOVERY_FAILED")
  /\ UNCHANGED <<tree, files, history, used>>

ServiceStep ==
  \/ Preflight \/ Recheck \/ Reserve \/ MakeStaging \/ WritePlan \/ CopyEntry
  \/ Restage \/ Authorize \/ MakeDirectory \/ WriteReceipt \/ CheckSource
  \/ WriteIntent \/ Promote \/ UnlinkSource \/ VerifyPublished \/ Commit
  \/ HandleException \/ Cleanup \/ RecoverBegin \/ CheckUntouched \/ ReadPlan
  \/ UndoEntry \/ UndoAdd \/ CopyRestore \/ PutBack \/ UndoDirectory
  \/ ConfirmRestored \/ Settle \/ RecordFailure

(***************************************************************************)
(* Exceptions, crashes and the rest of the world                           *)
(***************************************************************************)
\* A write that does not finish may leave its file partial.
MaybeTorn ==
  /\ plan' \in IF TornWrites /\ pc = "plan" THEN {plan, "torn"} ELSE {plan}
  /\ backup' \in IF TornWrites /\ pc = "copy" /\ Op[idx] # "ADD"
                   THEN {backup, [backup EXCEPT ![idx] = "torn"]} ELSE {backup}
  /\ intent' \in IF TornWrites /\ pc = "intent"
                   THEN {intent, [intent EXCEPT ![idx] = "torn"]} ELSE {intent}
  /\ receipt' \in IF TornWrites /\ pc = "receipt"
                    THEN {receipt, [receipt EXCEPT ![idx] = "torn"]} ELSE {receipt}
  /\ UNCHANGED missing

SpendFault == /\ used.faults < MaxFaults
              /\ used' = [used EXCEPT !.faults = @ + 1]
              /\ calm' = FALSE

\* An exception before the step had its effect (a cancellation is one too); one
\* raised after a file operation is the exception before the next step.
Fault ==
  /\ SpendFault
  /\ MaybeTorn
  /\ \/ pc \in PreparePcs /\ Return("CONFLICT") /\ UNCHANGED db
     \/ pc \in StagePcs \cup PublishPcs /\ Goto("handle") /\ UNCHANGED <<db, result>>
     \/ pc \in {"handle"} /\ Return("RECOVERY_FAILED") /\ UNCHANGED db
     \/ pc \in {"undo", "undoadd", "restore", "putback"}
          /\ PrevEntry(TRUE) /\ UNCHANGED <<db, result>>
     \/ /\ pc = "undodir" /\ idx > 0
        /\ idx' = idx - 1 /\ failed' = TRUE /\ UNCHANGED <<pc, held, seen>>
        /\ UNCHANGED <<db, result>>
     \/ /\ \/ pc \in {"recover", "precheck", "readplan", "confirm", "settle"}
           \/ pc = "undodir" /\ idx = 0
        /\ Goto("recfail") /\ UNCHANGED <<db, result>>
     \/ pc = "recfail" /\ Return("RECOVERY_FAILED") /\ UNCHANGED db
  /\ UNCHANGED <<tree, edited, authorized>>

\* A transaction that committed although its caller saw an exception.
LostReply ==
  /\ SpendFault
  /\ \/ /\ pc = "reserve" /\ CanReserve /\ PrepareApply
        /\ pc' = "handle" /\ UNCHANGED <<idx, seen, failed>>
     \/ /\ pc = "authorize" /\ SessionCas /\ journal = "PREPARING"
        /\ journal' = "APPLYING" /\ sver' = sver + 1 /\ UNCHANGED sess
        /\ authorized' = TRUE /\ UNCHANGED <<edited, files>>
        /\ Goto("handle")
     \/ /\ pc = "commit" /\ SessionCas /\ journal = "APPLYING"
        /\ TransitionCommitted /\ Goto("handle")
        /\ UNCHANGED <<files, edited, authorized>>
     \/ /\ pc = "settle" /\ CanSettle
        /\ TransitionRolledBack /\ Goto("recfail")
        /\ UNCHANGED <<files, edited, authorized>>
  /\ UNCHANGED <<tree, result>>

\* The process dies: the lock and every volatile variable are gone.
Crash ==
  /\ pc # "idle" /\ used.crashes < MaxCrashes
  /\ MaybeTorn
  /\ pc' = "idle" /\ idx' = 0 /\ held' = 0 /\ seen' = "PREPARING" /\ failed' = FALSE
  /\ result' = "none" /\ used' = [used EXCEPT !.crashes = @ + 1]
  /\ UNCHANGED <<tree, db, history>>

\* The user saves, deletes or reverts a file of the manifest.
EditFile(e, content) ==
  /\ used.edits < MaxEdits /\ source[e] # content
  /\ Parent[e] # 0 => dir[Parent[e]] # "absent"
  /\ source' = [source EXCEPT ![e] = content] /\ UNCHANGED dir
  /\ edited' = edited \cup {e} /\ calm' = FALSE /\ UNCHANGED authorized
  /\ used' = [used EXCEPT !.edits = @ + 1]
  /\ UNCHANGED <<db, files, caller, result>>

\* The user creates a directory that the manifest wanted to create.
EditDirectory(d) ==
  /\ used.edits < MaxEdits /\ dir[d] = "absent"
  /\ dir' = [dir EXCEPT ![d] = "foreign"] /\ UNCHANGED source
  /\ calm' = FALSE /\ UNCHANGED <<edited, authorized>>
  /\ used' = [used EXCEPT !.edits = @ + 1]
  /\ UNCHANGED <<db, files, caller, result>>

\* discard_session()/new_session() of another caller: a session CAS that
\* takes no project lock and does not look at the apply journal.
Discard ==
  /\ used.discards < MaxDiscards /\ sess = "DIRTY_VERIFIED"
  /\ sess' = "DISCARDED" /\ sver' = sver + 1 /\ UNCHANGED journal
  /\ calm' = FALSE /\ UNCHANGED <<edited, authorized>>
  /\ used' = [used EXCEPT !.discards = @ + 1]
  /\ UNCHANGED <<tree, files, caller, result>>

Environment ==
  \/ \E e \in Entries, content \in Content : EditFile(e, content)
  \/ \E d \in DirIds : EditDirectory(d)
  \/ Discard

Next ==
  \/ \E version \in {0, sver} : Begin(version)
  \/ RecoverPending
  \/ ServiceStep
  \/ Fault \/ LostReply \/ Crash
  \/ Environment

Spec == Init /\ [][Next]_vars

\* A process that holds the lock keeps running, and the program is started
\* again (its start calls recover_pending) while a journal is pending.
Fairness == WF_vars(ServiceStep) /\ WF_vars(RecoverPending)
FairSpec == Spec /\ Fairness

(***************************************************************************)
(* Safety                                                                  *)
(***************************************************************************)
\* A decided apply is all or nothing: apart from files the user changed since
\* the reservation, COMMITTED means every entry is published and ROLLED_BACK
\* (or no apply at all) that every entry has its old bytes. _apply verifies
\* before it commits, _recover before it settles; a crash, a lost reply or a
\* half-done rollback in between must not break it.
AllOrNothing ==
  /\ journal = "COMMITTED" => \A e \in Entries \ edited : source[e] = "after"
  /\ journal \in {"none", "ROLLED_BACK"} =>
       \A e \in Entries \ edited : source[e] = "before"

\* Write-ahead: while the journal is pending, a published entry has what
\* _rollback will ask for - an APPLYING decision, a whole plan, its intent and,
\* unless it is an ADD, its backup.
MutationIsUndoable ==
  journal \in Pending =>
    \A e \in Entries \ edited : source[e] = "after" =>
      /\ authorized /\ plan = "ok" /\ intent[e] = "ok"
      /\ Op[e] # "ADD" => backup[e] = "ok"

\* The session is APPLIED exactly when the newest journal is COMMITTED:
\* transition_apply writes both in one transaction, and nobody else may.
AppliedIffCommitted == sess = "APPLIED" <=> journal = "COMMITTED"

\* The status a call reports is what the database says, also after a reply was
\* lost: COMMITTED and ROLLED_BACK are only reported for that durable decision.
ReportedOutcomeIsDurable ==
  result \in {"COMMITTED", "ROLLED_BACK"} => journal = result

(***************************************************************************)
(* Action properties                                                       *)
(***************************************************************************)
\* Only a reserved transaction writes to the user's tree: outside APPLYING and
\* RECOVERY_FAILED only the user's edits change source or directories.
MutationNeedsReservation ==
  [][tree' # tree /\ used'.edits = used.edits =>
       journal \in {"APPLYING", "RECOVERY_FAILED"} /\ authorized]_vars

\* replace_from(absent=True) never clobbers: publishing a new file does not
\* overwrite one that appeared under its name after the last check.
PublishNeverClobbersNewFile ==
  [][\A e \in Entries :
       Op[e] = "ADD" /\ source[e] = "foreign" /\ source'[e] = "after"
         => used'.edits > used.edits]_vars

\* A decision is final: a COMMITTED journal never changes again, and a
\* ROLLED_BACK one only gives way to a new reservation.
DecisionIsFinal ==
  [][/\ journal = "COMMITTED" => journal' = "COMMITTED"
     /\ journal = "ROLLED_BACK" => journal' \in {"ROLLED_BACK", "PREPARING"}]_vars

\* The project is what the journal says, and whatever was published can be undone.
ProjectIsSafe == TypeOK /\ AllOrNothing /\ AppliedIffCommitted /\ MutationIsUndoable

\* The journal leads: nothing is published before it was authorized, and its decision is kept.
JournalLeads == MutationNeedsReservation /\ DecisionIsFinal

(***************************************************************************)
(* Refinement: the journal is the decision of an atomic apply              *)
(***************************************************************************)
Decision == IF journal \in Pending THEN "pending"
            ELSE IF journal = "COMMITTED" THEN "committed"
            ELSE IF journal = "ROLLED_BACK" THEN "rolledback" ELSE "open"

Abstract == INSTANCE AtomicApply WITH content <- source, decision <- Decision

\* ApplyService implements the atomic apply of AtomicApply: whatever crashes,
\* exceptions and edits interleave, every step is one of its steps or none.
ImplementsAtomicApply == Abstract!Spec

(***************************************************************************)
(* What recovery promises                                                  *)
(***************************************************************************)
\* Crashes alone never defeat recovery: with no edit, exception or discard a
\* restart always ends in ROLLED_BACK and the project is not left reserved.
CrashesAloneAreRecovered ==
  used.edits = 0 /\ used.faults = 0 /\ used.discards = 0 =>
    result # "RECOVERY_FAILED" /\ journal # "RECOVERY_FAILED"

\* "PREPARING never authorizes a source mutation": an undisturbed recovery of
\* a journal that never reached APPLYING succeeds if all before bytes exist.
PreparationIsHarmless ==
  calm /\ ~authorized /\ SessionOwned /\ Conditions("before")
    => result # "RECOVERY_FAILED"

\* Every reservation is eventually given back, so later applies can run.
ReservationIsReleased == journal \in Pending ~> journal \notin Pending

\* "... must leave or restore the complete pre-apply source tree": a source
\* that is half published does not stay so.
SourceIsSettled ==
  (\E e \in Entries : source[e] # "before") ~>
    (Conditions("before") \/ Conditions("after"))

\* Every apply comes to an end, in the database and in the project.
ApplySettles == ReservationIsReleased /\ SourceIsSettled
=============================================================================
